---------------------------- MODULE Spec2Model ----------------------------
(***************************************************************************)
(* Thread reconciliation of projects/sms/combine_eml_sms_to_json.py.       *)
(*                                                                         *)
(* Python strings are the sequences of their code points, so that          *)
(* stripping, lower-casing, digit extraction, containment and ordering are *)
(* computed and not assumed.  None and the empty string are both the empty *)
(* sequence: the code only ever tests these values for truthiness.         *)
(***************************************************************************)
EXTENDS Integers, Sequences, FiniteSets, TLC

\* ------------------------------------------------------------ bounds

\* Length of the worklist of .eml paths of one batch run.
MaxFiles == 3
\* Length of the message lists handed to dedupe_messages on its own.
MaxMsgs == 3
\* Length of the observation lists handed to unique_participants on its own.
MaxParts == 3

\* ------------------------------------------------------------ strings

\* A string is the sequence of its code points.
None == << >>

\* "0123456789"
Digits == << 48, 49, 50, 51, 52, 53, 54, 55, 56, 57 >>

\* '1', '.', '@', '_'
OneChar == 49
DotChar == 46
AtChar == 64
UnderscoreChar == 95

\* \d of the regular expressions
IsDigit(c) == c >= 48 /\ c <= 57

\* The ASCII characters str.strip() removes.
Whitespace == {32} \cup (9..13) \cup (28..31)

SetMin(S) == CHOOSE x \in S : \A y \in S : x <= y

SetMax(S) == CHOOSE x \in S : \A y \in S : x >= y

\* str.lower() on one character: 'A'..'Z' to 'a'..'z'.
Lower(c) == IF c >= 65 /\ c <= 90 THEN c + 32 ELSE c

\* str.lower()
StrLower(s) == [i \in 1..Len(s) |-> Lower(s[i])]

\* str.lstrip(chars)
RECURSIVE LStrip(_, _)
LStrip(s, chars) ==
  IF s = << >> THEN s
  ELSE IF s[1] \in chars THEN LStrip(Tail(s), chars)
  ELSE s

\* str.rstrip(chars)
RECURSIVE RStrip(_, _)
RStrip(s, chars) ==
  IF s = << >> THEN s
  ELSE IF s[Len(s)] \in chars THEN RStrip(SubSeq(s, 1, Len(s) - 1), chars)
  ELSE s

\* str.strip(): leading and trailing whitespace removed.
Strip(s) == RStrip(LStrip(s, Whitespace), Whitespace)

\* re.sub(r'\D', '', s)
DigitsOf(s) == SelectSeq(s, IsDigit)

\* str.find(c, i - 1) + 1: the first position of c in s from i on, else 0.
RECURSIVE Find(_, _, _)
Find(s, c, i) ==
  IF i > Len(s) THEN 0
  ELSE IF s[i] = c THEN i
  ELSE Find(s, c, i + 1)

\* The part of s before position at (all of s when at is 0).
Before(s, at) == IF at = 0 THEN s ELSE SubSeq(s, 1, at - 1)

\* s.split('@', 1)[0]
BeforeAt(s) == Before(s, Find(s, AtChar, 1))

\* Python's `needle in hay` on strings.
Contains(needle, hay) ==
  \E i \in 0..(Len(hay) - Len(needle)) :
     SubSeq(hay, i + 1, i + Len(needle)) = needle

\* Python's str `<`: lexicographic by code point, a proper prefix first.
RECURSIVE StrLess(_, _)
StrLess(a, b) ==
  IF b = << >> THEN FALSE
  ELSE IF a = << >> THEN TRUE
  ELSE IF a[1] # b[1] THEN a[1] < b[1]
  ELSE StrLess(Tail(a), Tail(b))

\* "sep".join(parts)
RECURSIVE Join(_, _)
Join(sep, parts) ==
  IF parts = << >> THEN << >>
  ELSE IF Len(parts) = 1 THEN parts[1]
  ELSE parts[1] \o sep \o Join(sep, Tail(parts))

\* str(n) for a natural number.
RECURSIVE IntToStr(_)
IntToStr(n) ==
  IF n < 10 THEN << Digits[n + 1] >>
  ELSE IntToStr(n \div 10) \o << Digits[(n % 10) + 1] >>

\* `a or b` on optional strings.
Or(a, b) == IF a # None THEN a ELSE b

\* Three operands of Python's `or`.
Or3(a, b, c) == Or(a, Or(b, c))

\* ------------------------------------------------ identity normalizer

TrunkLen == 11
ProperLen == 10
MinPhoneLen == 7

\* A mutant of DropTrunk: the leading '1' is kept.
DropTrunk_never(d0) == d0

\* digits[1:] when the 11 digits start with '1' (lines 79-80, 439-440).
DropTrunk(d0) == IF Len(d0) = TrunkLen /\ d0[1] = OneChar THEN Tail(d0) ELSE d0

\* A mutant of AtLeast7: exactly 7 digits are refused.
AtLeast7_exclusive(digits) == IF Len(digits) > MinPhoneLen THEN digits ELSE None

\* digits if len(digits) >= 7 else None
AtLeast7(digits) == IF Len(digits) >= MinPhoneLen THEN digits ELSE None

sanitize_phoneish(s) ==
  IF s = None THEN None ELSE AtLeast7(DropTrunk(DigitsOf(BeforeAt(s))))

is_proper_10_digit_number(s) == Len(sanitize_phoneish(s)) = ProperLen

normalize_addr(s) == StrLower(Strip(s))

\* "@unknown.email"
UnknownEmail == << 64, 117, 110, 107, 110, 111, 119, 110, 46, 101, 109, 97, 105, 108 >>

phone_variants(digits) ==
  {digits} \cup
  (IF Len(digits) = ProperLen
   THEN { << 49 >> \o digits,
          << 43, 49 >> \o digits,
          digits \o UnknownEmail,
          << 49 >> \o digits \o UnknownEmail,
          << 43, 49 >> \o digits \o UnknownEmail }
   ELSE {})

build_self_set(self_identifiers) ==
  UNION { LET t == normalize_addr(self_identifiers[i])
              ph == sanitize_phoneish(t)
          IN  IF t = None THEN {}
              ELSE {t} \cup (IF ph # None
                             THEN {normalize_addr(x) : x \in phone_variants(ph)}
                             ELSE {})
          : i \in 1..Len(self_identifiers) }

\* A mutant of is_self_addr: the comparison of phone digits is missing.
is_self_addr_exact(addr, SELF) ==
  IF addr = None THEN FALSE ELSE normalize_addr(addr) \in SELF

is_self_addr(addr, SELF) ==
  IF addr = None THEN FALSE
  ELSE LET a == normalize_addr(addr)
           ph == sanitize_phoneish(a)
       IN  \/ a \in SELF
           \/ /\ ph # None
              /\ \E s \in SELF : sanitize_phoneish(s) # None /\ sanitize_phoneish(s) = ph

\* ALIAS is the empty table (line 41), so both look-ups miss.
canonical_name(name_or_addr) ==
  IF name_or_addr = None THEN None
  ELSE LET ph == sanitize_phoneish(name_or_addr)
       IN  Or(IF ph = None THEN name_or_addr ELSE ph, name_or_addr)

\* ------------------------------------------------------ header access

\* A message `msg` as the e-mail parser hands it over: From and To are the
\* (name, addr) pairs of getaddresses(), the other fields are header values.

\* first_addr (nested in guess_direction_and_parties)
first_addr(addrs) ==
  IF addrs = << >> THEN [name |-> None, addr |-> None]
  ELSE [name |-> Strip(addrs[1].name), addr |-> Strip(addrs[1].addr)]

\* "sent"
SentWord == << 115, 101, 110, 116 >>

\* "inbox"
InboxWord == << 105, 110, 98, 111, 120 >>

\* "received"
ReceivedWord == << 114, 101, 99, 101, 105, 118, 101, 100 >>

\* msg.labels holds the values of the candidate folder/label headers that
\* are present, in header order.
folder_hint_direction(msg) ==
  LET val == Join(<< >>, [i \in 1..Len(msg.labels) |-> << 32 >> \o msg.labels[i]])
      val_l == StrLower(val)
  IN  IF Strip(val_l) = << >> THEN "none"
      ELSE IF Contains(SentWord, val_l) THEN "out"
      ELSE IF Contains(InboxWord, val_l) \/ Contains(ReceivedWord, val_l) THEN "in"
      ELSE "none"

\* ---------------------------------------------------- direction resolver

\* "no-id"
NoId == << 110, 111, 45, 105, 100 >>

Resolved(d, nm, ad, sf, w) ==
  [direction |-> d, person_name |-> nm, person_addr |-> ad, self_addr |-> sf, warn |-> w]

\* "1" and "2", the values of X-smssync-type
TypeIn == << 49 >>
TypeOut == << 50 >>

\* A mutant of Warning: nothing is printed.
Warning_silent(msg, f, t) == << >>

\* The [WARN] line of the ambiguous case (lines 331-332).
Warning(msg, f, t) == << [mid |-> Or(msg.mid, NoId), From |-> f.addr, To |-> t.addr] >>

\* A mutant of Fallback: the default is inbound.
Fallback_default_in(hdr, f, t, nonself, w) ==
  IF nonself # << >>
  THEN IF nonself[1].addr = f.addr
       THEN Resolved("in", f.name, Or(f.addr, hdr), t.addr, w)
       ELSE Resolved("out", t.name, Or(t.addr, hdr), f.addr, w)
  ELSE Resolved("in", Or(t.name, f.name), Or3(t.addr, f.addr, hdr), Or(f.addr, t.addr), w)

\* 4) fallback (lines 347-355); nonself lists the candidates that are not self.
Fallback(hdr, f, t, nonself, w) ==
  IF nonself # << >>
  THEN IF nonself[1].addr = f.addr
       THEN Resolved("in", f.name, Or(f.addr, hdr), t.addr, w)
       ELSE Resolved("out", t.name, Or(t.addr, hdr), f.addr, w)
  ELSE Resolved("out", Or(t.name, f.name), Or3(t.addr, f.addr, hdr), Or(f.addr, t.addr), w)

\* The ambiguous case, from_self = to_self (lines 330-344).
Ambiguous(hdr, ph_hdr, f, t, hint, nonself, w) ==
  IF hint = "in" THEN Resolved("in", f.name, Or(f.addr, hdr), t.addr, w)
  ELSE IF hint = "out" THEN Resolved("out", t.name, Or(t.addr, hdr), f.addr, w)
  ELSE IF ph_hdr # None /\ sanitize_phoneish(f.addr) = ph_hdr
  THEN Resolved("in", f.name, hdr, t.addr, w)
  ELSE IF ph_hdr # None /\ sanitize_phoneish(t.addr) = ph_hdr
  THEN Resolved("out", t.name, hdr, f.addr, w)
  ELSE Fallback(hdr, f, t, nonself, w)

\* A mutant of BySelfSet: the two roles are exchanged.
BySelfSet_swapped(msg, hdr, ph_hdr, f, t, from_self, to_self) ==
  IF from_self /\ ~ to_self
  THEN Resolved("in", f.name, Or3(f.addr, hdr, f.name), t.addr, << >>)
  ELSE IF to_self /\ ~ from_self
  THEN Resolved("out", t.name, Or3(t.addr, hdr, t.name), f.addr, << >>)
  ELSE Ambiguous(hdr, ph_hdr, f, t, folder_hint_direction(msg),
                 SelectSeq(<< [addr |-> f.addr, self |-> from_self],
                              [addr |-> t.addr, self |-> to_self] >>,
                           LAMBDA c : ~ c.self),
                 Warning(msg, f, t))

\* 3) compare to self set (lines 322-327), else the ambiguous case.
BySelfSet(msg, hdr, ph_hdr, f, t, from_self, to_self) ==
  IF from_self /\ ~ to_self
  THEN Resolved("out", t.name, Or3(t.addr, hdr, t.name), f.addr, << >>)
  ELSE IF to_self /\ ~ from_self
  THEN Resolved("in", f.name, Or3(f.addr, hdr, f.name), t.addr, << >>)
  ELSE Ambiguous(hdr, ph_hdr, f, t, folder_hint_direction(msg),
                 SelectSeq(<< [addr |-> f.addr, self |-> from_self],
                              [addr |-> t.addr, self |-> to_self] >>,
                           LAMBDA c : ~ c.self),
                 Warning(msg, f, t))

\* A mutant of ByAddress: the phone digits of the hint are not compared.
ByAddress_contained_only(msg, hdr, ph_hdr, f, t, SELF) ==
  IF hdr # None /\ f.addr # None /\ Contains(hdr, f.addr)
  THEN Resolved("in", f.name, hdr, t.addr, << >>)
  ELSE IF hdr # None /\ t.addr # None /\ Contains(hdr, t.addr)
  THEN Resolved("out", t.name, hdr, f.addr, << >>)
  ELSE BySelfSet(msg, hdr, ph_hdr, f, t, is_self_addr(f.addr, SELF), is_self_addr(t.addr, SELF))

\* 2) X-smssync-address alignment (lines 309-319).
ByAddress(msg, hdr, ph_hdr, f, t, SELF) ==
  IF hdr # None /\ f.addr # None /\ Contains(hdr, f.addr)
  THEN Resolved("in", f.name, hdr, t.addr, << >>)
  ELSE IF hdr # None /\ t.addr # None /\ Contains(hdr, t.addr)
  THEN Resolved("out", t.name, hdr, f.addr, << >>)
  ELSE IF hdr # None /\ ph_hdr # None /\ sanitize_phoneish(f.addr) = ph_hdr
  THEN Resolved("in", f.name, hdr, t.addr, << >>)
  ELSE IF hdr # None /\ ph_hdr # None /\ sanitize_phoneish(t.addr) = ph_hdr
  THEN Resolved("out", t.name, hdr, f.addr, << >>)
  ELSE BySelfSet(msg, hdr, ph_hdr, f, t, is_self_addr(f.addr, SELF), is_self_addr(t.addr, SELF))

\* A mutant of ByType: the explicit type is not consulted.
ByType_ignored(msg, smstype, hdr, f, t, SELF) ==
  ByAddress(msg, hdr, sanitize_phoneish(hdr), f, t, SELF)

\* 1) explicit type wins (lines 303-306).
ByType(msg, smstype, hdr, f, t, SELF) ==
  IF smstype = TypeIn THEN Resolved("in", f.name, f.addr, t.addr, << >>)
  ELSE IF smstype = TypeOut THEN Resolved("out", t.name, t.addr, f.addr, << >>)
  ELSE ByAddress(msg, hdr, sanitize_phoneish(hdr), f, t, SELF)

\* The result of guess_direction_and_parties, with the [WARN] line it prints
\* to stderr as the field warn (<< >> when nothing is printed).
guess_direction_and_parties(msg, self_emails) ==
  ByType(msg, Strip(msg.smstype), Strip(msg.address),
         first_addr(msg.From), first_addr(msg.To), build_self_set(self_emails))

\* ------------------------------------------------- participants, sender

RECURSIVE CollectLoop(_, _, _, _)
CollectLoop(addrs, SELF, seen, out) ==
  IF addrs = << >> THEN out
  ELSE LET nm == addrs[1].name
           ad == Strip(addrs[1].addr)
           key == << normalize_addr(nm), normalize_addr(ad) >>
       IN  IF ad = None \/ is_self_addr(ad, SELF) \/ key \in seen
           THEN CollectLoop(Tail(addrs), SELF, seen, out)
           ELSE CollectLoop(Tail(addrs), SELF, seen \cup {key},
                            Append(out, [name |-> Strip(nm), addr |-> ad,
                                         phone |-> sanitize_phoneish(ad)]))

collect_participants(msg, self_emails) ==
  CollectLoop(msg.From \o msg.To, build_self_set(self_emails), {}, << >>)

compute_sender(msg, self_emails) ==
  LET SELF == build_self_set(self_emails)
      name == IF msg.From = << >> THEN None ELSE Strip(msg.From[1].name)
      addr == IF msg.From = << >> THEN None ELSE Strip(msg.From[1].addr)
  IN  [name |-> name, addr |-> addr,
       phone |-> Or(sanitize_phoneish(addr), sanitize_phoneish(name)),
       is_self |-> is_self_addr(addr, SELF)]

\* The loop of parse_eml_file that looks a display name up for person_addr.
RECURSIVE NameFor(_, _)
NameFor(all_names, person_addr) ==
  IF all_names = << >> THEN None
  ELSE IF all_names[1].addr = person_addr /\ all_names[1].name # None
  THEN Strip(all_names[1].name)
  ELSE NameFor(Tail(all_names), person_addr)

\* The ParsedMessage built on lines 377-394.
ParsedMessage(path, msg, g, person_name, parts, s) ==
  [msg_id |-> msg.mid,
   direction |-> g.direction,
   person_name |-> person_name,
   person_addr |-> g.person_addr,
   self_addr |-> g.self_addr,
   timestamp_ms |-> msg.ts,
   body_text |-> msg.body,
   attachments |-> msg.atts,
   participants |-> parts,
   sender_name |-> s.name,
   sender_addr |-> s.addr,
   sender_phone |-> s.phone,
   sender_is_self |-> s.is_self,
   source_path |-> path]

\* Lines 370-375: a display name for a counterpart that has none.
Named(path, msg, g, parts, s) ==
  ParsedMessage(path, msg, g,
                IF g.person_name = None /\ g.person_addr # None
                THEN NameFor(msg.To \o msg.From, g.person_addr)
                ELSE g.person_name,
                parts, s)

\* parse_eml_file without its stderr output; path stands for the file.
parse_eml_file(path, msg, self_emails) ==
  Named(path, msg, guess_direction_and_parties(msg, self_emails),
        collect_participants(msg, self_emails), compute_sender(msg, self_emails))

DirStr(d) == IF d = "in" THEN << 105, 110 >> ELSE << 111, 117, 116 >>

\* "unknown_"
UnknownPrefix == << 117, 110, 107, 110, 111, 119, 110, 95 >>

\* A mutant of person_key_from: the address is preferred to the phone digits.
person_key_from_addr_first(pm) ==
  IF pm.person_addr # None THEN pm.person_addr
  ELSE IF sanitize_phoneish(pm.person_name) # None THEN sanitize_phoneish(pm.person_name)
  ELSE IF pm.person_name # None THEN pm.person_name
  ELSE UnknownPrefix \o DirStr(pm.direction) \o << 95 >> \o IntToStr(pm.timestamp_ms)

person_key_from(pm) ==
  LET ph == Or(sanitize_phoneish(pm.person_addr), sanitize_phoneish(pm.person_name))
  IN  IF ph # None THEN ph
      ELSE IF pm.person_addr # None THEN pm.person_addr
      ELSE IF pm.person_name # None THEN pm.person_name
      ELSE UnknownPrefix \o DirStr(pm.direction) \o << 95 >> \o IntToStr(pm.timestamp_ms)

\* ----------------------------------------------- participant dedup

looks_like_phone_label(s) == s # None /\ Len(DigitsOf(s)) >= MinPhoneLen

\* A mutant of is_better_name: any later name is better.
is_better_name_latest(old, new) == new # None

is_better_name(old, new) ==
  IF new = None THEN FALSE
  ELSE IF old = None THEN TRUE
  ELSE looks_like_phone_label(old) /\ ~ looks_like_phone_label(new)

\* "phone:"
PhoneTag == << 112, 104, 111, 110, 101, 58 >>

\* "addr:"
AddrTag == << 97, 100, 100, 114, 58 >>

\* "name:"
NameTag == << 110, 97, 109, 101, 58 >>

\* "anon:"
AnonTag == << 97, 110, 111, 110, 58 >>

\* ident stands for id(p), the identity of the dict object.
participant_key(p, ident) ==
  IF p.phone # None THEN PhoneTag \o p.phone
  ELSE IF normalize_addr(p.addr) # None THEN AddrTag \o normalize_addr(p.addr)
  ELSE IF normalize_addr(p.name) # None THEN NameTag \o normalize_addr(p.name)
  ELSE AnonTag \o IntToStr(ident)

\* A mutant of MergeStep: every observation becomes an entry of its own.
MergeStep_append(out, p, ident) ==
  Append(out, [key |-> participant_key(p, ident),
               name |-> p.name, addr |-> p.addr, phone |-> p.phone])

\* A mutant of MergeStep: a later observation overwrites the address.
MergeStep_overwrite(out, p, ident) ==
  LET key == participant_key(p, ident)
      at == {i \in 1..Len(out) : out[i].key = key}
  IN  IF at = {}
      THEN Append(out, [key |-> key, name |-> p.name, addr |-> p.addr, phone |-> p.phone])
      ELSE LET i == CHOOSE j \in at : TRUE
           IN  [out EXCEPT ![i].addr = p.addr]

\* One turn of the loop of unique_participants.  out is the dict `out` as
\* the sequence of its entries in insertion order, each with its key.
MergeStep(out, p, ident) ==
  LET key == participant_key(p, ident)
      at == {i \in 1..Len(out) : out[i].key = key}
  IN  IF at = {}
      THEN Append(out, [key |-> key, name |-> p.name, addr |-> p.addr, phone |-> p.phone])
      ELSE LET i == CHOOSE j \in at : TRUE
               cur == out[i]
           IN  [out EXCEPT
                  ![i].name = IF is_better_name(cur.name, p.name) THEN p.name ELSE cur.name,
                  ![i].addr = IF cur.addr = None /\ p.addr # None THEN p.addr ELSE cur.addr,
                  ![i].phone = IF cur.phone = None /\ p.phone # None THEN p.phone ELSE cur.phone]

\* Python's `<` on two sort keys, tuples of equal length compared component by
\* component; an integer component is held as a string of one element.
RECURSIVE KeyLess(_, _)
KeyLess(a, b) ==
  IF a = << >> \/ b = << >> THEN FALSE
  ELSE IF a[1] # b[1] THEN StrLess(a[1], b[1])
  ELSE KeyLess(Tail(a), Tail(b))

\* list.sort(key=...) / sorted(..., key=...): the stable sort of s, keys[i]
\* being the key of s[i].
StableSort(s, keys) ==
  LET n == Len(s)
      rank(i) == 1 + Cardinality({j \in 1..n :
                        KeyLess(keys[j], keys[i]) \/ (keys[j] = keys[i] /\ j < i)})
  IN  [k \in 1..n |-> s[CHOOSE i \in 1..n : rank(i) = k]]

\* The sort key (phone or "", addr or "", name or "") of line 490.
ParticipantSortKey(x) == << x.phone, x.addr, x.name >>

\* The values of `out`, sorted as on line 490.
SortedValues(out) ==
  StableSort([i \in 1..Len(out) |->
                [name |-> out[i].name, addr |-> out[i].addr, phone |-> out[i].phone]],
             [i \in 1..Len(out) |-> ParticipantSortKey(out[i])])

RECURSIVE MergeLoop(_, _, _)
MergeLoop(part_list, out, ident) ==
  IF part_list = << >> THEN out
  ELSE MergeLoop(Tail(part_list), MergeStep(out, part_list[1], ident), ident + 1)

\* Observations are dicts with the three keys, so `if not p` never skips.
unique_participants(part_list) == SortedValues(MergeLoop(part_list, << >>, 1))

\* --------------------------------------------------- message dedup

\* The sha1 over the concatenated attachment fields, taken as the
\* concatenation itself.
RECURSIVE att_digest(_)
att_digest(atts) ==
  IF atts = << >> THEN << >>
  ELSE atts[1].filename \o atts[1].content_type \o atts[1].data_b64 \o att_digest(Tail(atts))

\* A mutant of Fingerprint: the source file is part of the fingerprint.
Fingerprint_with_path(m) ==
  << m.timestamp_ms, m.body_text, att_digest(m.attachments), m.source_path >>

Fingerprint(m) == << m.timestamp_ms, m.body_text, att_digest(m.attachments) >>

\* A mutant of DedupeLoop: a duplicate by identifier is dropped without
\* being counted.
RECURSIVE DedupeLoop_uncounted(_, _, _, _, _)
DedupeLoop_uncounted(messages, seen_ids, seen_fingerprints, out, removed) ==
  IF messages = << >> THEN [out |-> out, removed |-> removed]
  ELSE LET m == messages[1]
           mid == Strip(m.msg_id)
           fp == Fingerprint(m)
       IN  IF mid # None /\ mid \in seen_ids
           THEN DedupeLoop_uncounted(Tail(messages), seen_ids, seen_fingerprints, out, removed)
           ELSE IF fp \in seen_fingerprints
           THEN DedupeLoop_uncounted(Tail(messages), seen_ids, seen_fingerprints, out, removed + 1)
           ELSE DedupeLoop_uncounted(Tail(messages),
                           IF mid # None THEN seen_ids \cup {mid} ELSE seen_ids,
                           seen_fingerprints \cup {fp}, Append(out, m), removed)

\* A mutant of DedupeLoop: a fingerprint is compared with that of the
\* preceding input message only.
RECURSIVE DedupeLoop_adjacent(_, _, _, _, _)
DedupeLoop_adjacent(messages, seen_ids, seen_fingerprints, out, removed) ==
  IF messages = << >> THEN [out |-> out, removed |-> removed]
  ELSE LET m == messages[1]
           mid == Strip(m.msg_id)
           fp == Fingerprint(m)
       IN  IF mid # None /\ mid \in seen_ids
           THEN DedupeLoop_adjacent(Tail(messages), seen_ids, {fp}, out, removed + 1)
           ELSE IF fp \in seen_fingerprints
           THEN DedupeLoop_adjacent(Tail(messages), seen_ids, {fp}, out, removed + 1)
           ELSE DedupeLoop_adjacent(Tail(messages),
                           IF mid # None THEN seen_ids \cup {mid} ELSE seen_ids,
                           {fp}, Append(out, m), removed)

\* A mutant of DedupeLoop: the identifier of a message dropped for its
\* fingerprint is remembered.
RECURSIVE DedupeLoop_ids_of_dropped(_, _, _, _, _)
DedupeLoop_ids_of_dropped(messages, seen_ids, seen_fingerprints, out, removed) ==
  IF messages = << >> THEN [out |-> out, removed |-> removed]
  ELSE LET m == messages[1]
           mid == Strip(m.msg_id)
           fp == Fingerprint(m)
           ids == IF mid # None THEN seen_ids \cup {mid} ELSE seen_ids
       IN  IF mid # None /\ mid \in seen_ids
           THEN DedupeLoop_ids_of_dropped(Tail(messages), seen_ids, seen_fingerprints,
                                          out, removed + 1)
           ELSE IF fp \in seen_fingerprints
           THEN DedupeLoop_ids_of_dropped(Tail(messages), ids, seen_fingerprints,
                                          out, removed + 1)
           ELSE DedupeLoop_ids_of_dropped(Tail(messages), ids,
                                          seen_fingerprints \cup {fp}, Append(out, m), removed)

\* The loop of dedupe_messages (lines 509-521).
RECURSIVE DedupeLoop(_, _, _, _, _)
DedupeLoop(messages, seen_ids, seen_fingerprints, out, removed) ==
  IF messages = << >> THEN [out |-> out, removed |-> removed]
  ELSE LET m == messages[1]
           mid == Strip(m.msg_id)
           fp == Fingerprint(m)
       IN  IF mid # None /\ mid \in seen_ids
           THEN DedupeLoop(Tail(messages), seen_ids, seen_fingerprints, out, removed + 1)
           ELSE IF fp \in seen_fingerprints
           THEN DedupeLoop(Tail(messages), seen_ids, seen_fingerprints, out, removed + 1)
           ELSE DedupeLoop(Tail(messages),
                           IF mid # None THEN seen_ids \cup {mid} ELSE seen_ids,
                           seen_fingerprints \cup {fp}, Append(out, m), removed)

dedupe_messages(messages) == DedupeLoop(messages, {}, {}, << >>, 0)

\* ------------------------------------------------------ file names

\* "unknown"
UnknownWord == << 117, 110, 107, 110, 111, 119, 110 >>

\* The character class [A-Za-z0-9._@+-] of safe_filename.
SafeChar(c) ==
  \/ IsDigit(c)
  \/ c >= 65 /\ c <= 90
  \/ c >= 97 /\ c <= 122
  \/ c \in {46, 64, 43, 45}

\* str.strip('_')
StripUnderscore(s) == RStrip(LStrip(s, {UnderscoreChar}), {UnderscoreChar})

\* re.sub(r'[^A-Za-z0-9._@+-]+', '_', s0): every maximal run of other
\* characters becomes one underscore.
SubUnsafe(s0) ==
  LET keep == SelectSeq([i \in 1..Len(s0) |-> i],
                        LAMBDA i : SafeChar(s0[i]) \/ i = 1 \/ SafeChar(s0[i - 1]))
  IN  [k \in 1..Len(keep) |-> IF SafeChar(s0[keep[k]]) THEN s0[keep[k]] ELSE UnderscoreChar]

safe_filename(s) == Or(StripUnderscore(SubUnsafe(Or(s, UnknownWord))), UnknownWord)

MaxFilename == 100
HashLen == 5

RECURSIVE CharSum(_)
CharSum(t) == IF t = << >> THEN 0 ELSE t[1] + CharSum(Tail(t))

\* d written with HashLen digits
ZeroPad(d) == [i \in 1..(HashLen - Len(d)) |-> Digits[1]] \o d

\* The first HashLen hex digits of sha1(base), taken as a checksum of the
\* characters: many names share one, as with sha1.
Sha1Prefix(base) == ZeroPad(IntToStr(CharSum(base) % 100000))

\* base and ext of a name whose extension starts at one of dots.
SplitAt(name, dots) ==
  IF dots = {} THEN [base |-> name, ext |-> << >>]
  ELSE [base |-> SubSeq(name, 1, SetMax(dots) - 1),
        ext |-> SubSeq(name, SetMax(dots), Len(name))]

\* os.path.splitext: the extension starts at the last dot that follows a
\* character other than a dot.
SplitExt(name) ==
  SplitAt(name, {i \in 2..Len(name) :
                   name[i] = DotChar /\ \E j \in 1..(i - 1) : name[j] # DotChar})

\* base[:keep] + "_" + h + ext with keep = max(1, maxlen - len(ext) - 1 - len(h))
Truncated(sp, h, k0) ==
  SubSeq(sp.base, 1, SetMin({Len(sp.base), SetMax({1, k0})}))
  \o << UnderscoreChar >> \o h \o sp.ext

Shortened(sp, h) == Truncated(sp, h, MaxFilename - Len(sp.ext) - 1 - Len(h))

enforce_max_filename(name) ==
  IF Len(name) <= MaxFilename THEN name
  ELSE Shortened(SplitExt(name), Sha1Prefix(SplitExt(name).base))

\* "_combined.eml"
CombinedEml == << 95, 99, 111, 109, 98, 105, 110, 101, 100, 46, 101, 109, 108 >>

\* "_combined.json"
CombinedJson == << 95, 99, 111, 109, 98, 105, 110, 101, 100, 46, 106, 115, 111, 110 >>

\* "Group_"
GroupPrefix == << 71, 114, 111, 117, 112, 95 >>

\* "Group: "
GroupSubject == << 71, 114, 111, 117, 112, 58, 32 >>

\* ------------------------------------------------------ thread assembly

\* The digits of a counterpart without '@' are not 10 (lines 436-441).
ImproperDigits(d0) == IF d0 = << >> THEN FALSE ELSE Len(DropTrunk(d0)) # ProperLen

\* identifier.strip() holds no '@' and its digits are not 10 (lines 433-441).
ImproperStripped(s) == IF Contains(<< AtChar >>, s) THEN FALSE ELSE ImproperDigits(DigitsOf(s))

is_improper_counterpart(identifier) ==
  IF identifier = None THEN FALSE ELSE ImproperStripped(Strip(identifier))

\* The sort key (timestamp_ms, msg_id or "") of line 529.
MessageSortKey(m) == << << m.timestamp_ms >>, m.msg_id >>

\* A mutant of SortMessages: the tie-break on the identifier is missing.
SortMessages_no_tiebreak(messages) ==
  StableSort(messages, [i \in 1..Len(messages) |-> << << messages[i].timestamp_ms >> >>])

\* messages.sort(key=lambda m: (m.timestamp_ms, m.msg_id or ""))
SortMessages(messages) ==
  StableSort(messages, [i \in 1..Len(messages) |-> MessageSortKey(messages[i])])

\* sorted(strs) on a list of strings.
SortStrings(strs) == StableSort(strs, [i \in 1..Len(strs) |-> << strs[i] >>])

\* Counter(names).most_common(1)[0][0]: the most frequent name, the one seen
\* first among equals.
most_common_name(names) ==
  IF names = << >> THEN None
  ELSE LET cnt(v) == Cardinality({i \in 1..Len(names) : names[i] = v})
           first(v) == SetMin({i \in 1..Len(names) : names[i] = v})
           best == CHOOSE i \in 1..Len(names) :
                     /\ first(names[i]) = i
                     /\ \A j \in 1..Len(names) :
                          \/ cnt(names[j]) < cnt(names[i])
                          \/ cnt(names[j]) = cnt(names[i]) /\ first(names[j]) >= i
       IN  names[best]

RECURSIVE Flatten(_)
Flatten(lists) == IF lists = << >> THEN << >> ELSE lists[1] \o Flatten(Tail(lists))

\* The entry of json_obj["messages"] for one message (lines 606-621).
JsonMessage(pm) ==
  [message_id |-> pm.msg_id,
   direction |-> pm.direction,
   timestamp_ms |-> pm.timestamp_ms,
   body |-> pm.body_text,
   sender |-> [name |-> pm.sender_name, addr |-> pm.sender_addr,
               phone |-> pm.sender_phone, is_self |-> pm.sender_is_self,
               label |-> canonical_name(Or3(pm.sender_name, pm.sender_phone,
                                            Or(pm.sender_addr, UnknownWord)))],
   source_eml |-> pm.source_path,
   attachments |-> pm.attachments]

\* A mutant of SkipReason: a thread of one message is not skipped.
SkipReason_keep_single(n, is_group, counterpart) ==
  IF n < 1 THEN "single_message_thread"
  ELSE IF ~ is_group /\ is_improper_counterpart(counterpart) THEN "improper_number_thread"
  ELSE "none"

\* The skip policy of combine_for_person (lines 566-572); "none" is the
\* reason None of a thread that is written.
SkipReason(n, is_group, counterpart) ==
  IF n <= 1 THEN "single_message_thread"
  ELSE IF ~ is_group /\ is_improper_counterpart(counterpart) THEN "improper_number_thread"
  ELSE "none"

\* p.get("phone") or p.get("addr") or p.get("name") or "unknown"
KeyElem(p) == Or3(p.phone, p.addr, Or(p.name, UnknownWord))

\* The group branch of combine_for_person (lines 539-549).
GroupLabels(dedup_parts) ==
  [name |-> None,
   addr |-> None,
   subj_name |-> GroupSubject \o Join(<< 44, 32 >>,
       SortStrings([i \in 1..Len(dedup_parts) |->
          canonical_name(Or3(dedup_parts[i].name, dedup_parts[i].phone,
                             Or(dedup_parts[i].addr, UnknownWord)))])),
   label_for_files |-> GroupPrefix \o Join(<< 95 >>,
       SortStrings([i \in 1..Len(dedup_parts) |-> safe_filename(KeyElem(dedup_parts[i]))])),
   final_key |-> GroupPrefix \o Join(<< 95 >>,
       SortStrings([i \in 1..Len(dedup_parts) |-> KeyElem(dedup_parts[i])]))]

\* The one-to-one branch once name and addr are known (lines 557-560).
PersonLabelsOf(person_key, unique, name, addr) ==
  [name |-> name,
   addr |-> addr,
   subj_name |-> Or3(name, addr, person_key),
   label_for_files |-> Or(name, Or3(sanitize_phoneish(addr), addr, person_key)),
   final_key |-> Or(unique.phone, Or3(addr, unique.name, person_key))]

\* unique.get("addr") and the canonical name (lines 555-556).
PersonNamed(person_key, common, unique) ==
  PersonLabelsOf(person_key, unique,
                 canonical_name(Or(common, Or3(unique.name, unique.phone, unique.addr))),
                 unique.addr)

\* The one-to-one branch of combine_for_person (lines 551-560).
PersonLabels(person_key, messages, dedup_parts) ==
  PersonNamed(person_key,
              most_common_name(SelectSeq([i \in 1..Len(messages) |-> messages[i].person_name],
                                         LAMBDA v : v # None)),
              IF dedup_parts # << >> THEN dedup_parts[1]
              ELSE [name |-> None, addr |-> None, phone |-> None])

\* self_addrs[0] if self_addrs else None (lines 563-564)
FirstSelfAddr(messages) ==
  LET self_addrs == SelectSeq([i \in 1..Len(messages) |-> messages[i].self_addr],
                              LAMBDA v : v # None)
  IN  IF self_addrs # << >> THEN self_addrs[1] ELSE None

\* What combine_for_person returns and, when the thread is written, the
\* names and the content of the two files (lines 566-628).
Assembled(person_key, removed, messages, dedup_parts, is_group, lab) ==
  [reason |-> SkipReason(Len(messages), is_group, Or3(lab.addr, lab.name, person_key)),
   dedup_removed |-> removed,
   is_group |-> is_group,
   messages |-> messages,
   eml_name |-> enforce_max_filename(safe_filename(lab.label_for_files) \o CombinedEml),
   json_name |-> enforce_max_filename(safe_filename(lab.label_for_files) \o CombinedJson),
   json_obj |-> [thread_key |-> lab.final_key,
                 thread_label |-> lab.subj_name,
                 person_name |-> lab.name,
                 person_address |-> lab.addr,
                 self_address |-> FirstSelfAddr(messages),
                 message_count |-> Len(messages),
                 participants |-> dedup_parts,
                 messages |-> [i \in 1..Len(messages) |-> JsonMessage(messages[i])],
                 deduplicated_messages_removed |-> removed]]

\* s.startswith(pre)
StartsWith(s, pre) == Len(s) >= Len(pre) /\ SubSeq(s, 1, Len(pre)) = pre

\* A mutant of Classified: the thread is a group when its provisional key
\* is a group key.
Classified_by_key(person_key, removed, messages, dedup_parts) ==
  Assembled(person_key, removed, messages, dedup_parts,
            StartsWith(person_key, GroupPrefix),
            IF StartsWith(person_key, GroupPrefix)
            THEN GroupLabels(dedup_parts)
            ELSE PersonLabels(person_key, messages, dedup_parts))

\* Group or 1:1 (lines 537-560).
Classified(person_key, removed, messages, dedup_parts) ==
  Assembled(person_key, removed, messages, dedup_parts, Len(dedup_parts) >= 2,
            IF Len(dedup_parts) >= 2 THEN GroupLabels(dedup_parts)
            ELSE PersonLabels(person_key, messages, dedup_parts))

\* Sorted messages and their deduplicated participants (lines 529-535).
Sorted(person_key, removed, messages) ==
  Classified(person_key, removed, messages,
             unique_participants(Flatten([i \in 1..Len(messages) |->
                                            messages[i].participants])))

Deduped(person_key, dd) == Sorted(person_key, dd.removed, SortMessages(dd.out))

combine_for_person(person_key, msgs) == Deduped(person_key, dedupe_messages(msgs))

\* ------------------------------------------------------ the inputs

\* "9412660605"
SelfPhone == << 57, 52, 49, 50, 54, 54, 48, 54, 48, 53 >>

\* "me@x.com"
SelfMail == << 109, 101, 64, 120, 46, 99, 111, 109 >>

\* args.self_email
SelfEmails == << SelfMail, SelfPhone >>

\* "+19412660605@unknown.email"
SelfPlus == << 43, 49 >> \o SelfPhone \o UnknownEmail

\* "4075551234"
BobPhone == << 52, 48, 55, 53, 53, 53, 49, 50, 51, 52 >>

\* "+14075551234@unknown.email"
BobPlus == << 43, 49 >> \o BobPhone \o UnknownEmail

\* "Bob"
BobName == << 66, 111, 98 >>

\* "5898"
ShortCode == << 53, 56, 57, 56 >>

ShortCodeAt == ShortCode \o UnknownEmail

\* "A@x.com"
AnnMail == << 65, 64, 120, 46, 99, 111, 109 >>

\* "b@x.com"
BenMail == << 98, 64, 120, 46, 99, 111, 109 >>

\* "a"
IdA == << 97 >>

\* "a "
IdASpace == << 97, 32 >>

\* "hi"
BodyHi == << 104, 105 >>

\* "yo"
BodyYo == << 121, 111 >>

\* "ok"
BodyOk == << 111, 107 >>

Pair(nm, ad) == [name |-> nm, addr |-> ad]

\* One parsed e-mail: the header values and the decoded content.
Eml(from, to, smstype, address, labels, mid, ts, body) ==
  [From |-> from, To |-> to, smstype |-> smstype, address |-> address,
   labels |-> labels, mid |-> mid, ts |-> ts, body |-> body, atts |-> << >>]

Plain(from, to, mid, ts, body) == Eml(from, to, << >>, << >>, << >>, mid, ts, body)

ToSelf == << Pair(None, SelfPlus) >>

FromSelf == << Pair(None, SelfPlus) >>

\* From +14075551234@unknown.email to +19412660605@unknown.email, "hi" at 1000.
MessageA == Plain(<< Pair(None, BobPlus) >>, ToSelf, None, 1000, BodyHi)

\* From "4075551234" <A@x.com> to self: the name is Bob's number, the address
\* is Ann's.
MessageNamedByNumber == Plain(<< Pair(BobPhone, AnnMail) >>, ToSelf, None, 1000, BodyYo)

\* The .eml files a batch run draws its worklist from; a file drawn twice
\* is a byte-identical copy at another path.
BatchFiles ==
  { MessageA,
    Plain(<< Pair(BobName, BobPlus) >>, ToSelf, IdA, 1000, BodyOk),
    Plain(FromSelf, << Pair(None, BobPhone) >>, IdASpace, 500, BodyYo),
    MessageNamedByNumber,
    Plain(<< Pair(None, ShortCode) >>, ToSelf, None, 1000, BodyHi),
    Plain(<< Pair(None, ShortCode) >>, ToSelf, None, 500, BodyYo),
    Plain(<< Pair(None, ShortCodeAt) >>, ToSelf, None, 1000, BodyHi),
    Plain(<< Pair(None, ShortCodeAt) >>, ToSelf, None, 500, BodyYo),
    Plain(FromSelf, << Pair(None, AnnMail), Pair(None, BenMail) >>, IdA, 1000, BodyHi),
    Plain(<< Pair(None, AnnMail) >>, << Pair(None, SelfMail), Pair(None, BenMail) >>,
          None, 500, BodyYo),
    Plain(FromSelf, ToSelf, None, 0, BodyHi) }

\* ------------------------------------------------------ the batch run

VARIABLES
  npaths,                  \* len(paths)
  count,                   \* files processed so far
  groups,                  \* thread key -> list of ParsedMessage
  order,                   \* the keys of groups in insertion order
  stderr,                  \* the [WARN] lines printed
  pc,                      \* "parse", "combine", "done"
  tpos,                    \* position of the thread loop in order
  total_messages,
  total_threads,
  summary,
  skipped,
  skipped_message_count,
  improper_number_threads,
  total_dedup_removed,
  eml_files,               \* outdir: name of a combined .eml -> content
  json_files,              \* outdir: name of a thread .json -> content
  report,                  \* summary_report.json, << >> until written
  g_msg,                   \* the message handed to guess_direction_and_parties
  g_out,                   \* << its result >>, << >> before the call
  dd_messages,             \* the list handed to dedupe_messages
  dd_first,                \* << its result >>, << >> before the call
  dd_second,               \* << the result on the first output >>
  part_list,               \* the observations handed to unique_participants
  up_out,                  \* its dict `out` after the observations so far
  up_result,               \* << the list it returns >>, << >> before the return
  self_email,              \* args.self_email
  inputs,                  \* the .eml files args.inputs names
  id_in,                   \* the string handed to the identity normalizer
  id_phone,                \* << sanitize_phoneish of it >>, << >> before the call
  id_self                  \* << is_self_addr of it >>, << >> before the call

vars ==
  << npaths, count, groups, order, stderr, pc, tpos, total_messages, total_threads,
     summary, skipped, skipped_message_count, improper_number_threads,
     total_dedup_removed, eml_files, json_files, report,
     g_msg, g_out, dd_messages, dd_first, dd_second, part_list, up_out, up_result,
     self_email, inputs, id_in, id_phone, id_self >>

\* The state of the functions that are also run on their own.
resolveVars == << g_msg, g_out >>
dedupeVars == << dd_messages, dd_first, dd_second >>
partVars == << part_list, up_out, up_result >>
identVars == << id_in, id_phone, id_self >>

batchVars ==
  << npaths, count, groups, order, stderr, pc, tpos, total_messages, total_threads,
     summary, skipped, skipped_message_count, improper_number_threads,
     total_dedup_removed, eml_files, json_files, report, self_email, inputs >>

accVars == << npaths, count, groups, order, stderr, self_email, inputs >>

outVars ==
  << summary, skipped, skipped_message_count, improper_number_threads,
     total_dedup_removed, eml_files, json_files >>

EmptyMap == [k \in {} |-> << >>]

\* m[k] = v in a dict
Put(m, k, v) == [j \in DOMAIN m \cup {k} |-> IF j = k THEN v ELSE m[j]]

WarnLine(kind, path, w) ==
  [kind |-> kind, path |-> path, mid |-> w.mid, From |-> w.From, To |-> w.To]

NoHeaders == [mid |-> None, From |-> None, To |-> None]

\* main before its first file, the worklist apart.
Fresh ==
  /\ count = 0
  /\ groups = EmptyMap
  /\ order = << >>
  /\ stderr = << >>
  /\ tpos = 1
  /\ total_messages = 0
  /\ total_threads = 0
  /\ summary = << >>
  /\ skipped = << >>
  /\ skipped_message_count = 0
  /\ improper_number_threads = << >>
  /\ total_dedup_removed = 0
  /\ eml_files = EmptyMap
  /\ json_files = EmptyMap
  /\ report = << >>

\* No batch is run: a function is called on its own.
NoBatch == npaths = 0 /\ pc = "done" /\ self_email = SelfEmails /\ inputs = {} /\ Fresh

NoResolve == g_msg = << >> /\ g_out = << >>
NoDedupe == dd_messages = << >> /\ dd_first = << >> /\ dd_second = << >>
NoParticipants == part_list = << >> /\ up_out = << >> /\ up_result = << >>
NoIdentity == id_in = << >> /\ id_phone = << >> /\ id_self = << >>

\* A batch run over 1..MaxFiles files (paths is not empty, line 654) with
\* the default self identifiers.
Init ==
  /\ npaths \in 1..MaxFiles
  /\ pc = "parse"
  /\ self_email = SelfEmails
  /\ inputs = BatchFiles
  /\ Fresh
  /\ NoResolve
  /\ NoDedupe
  /\ NoParticipants
  /\ NoIdentity

\* A mutant of GroupingKey: the key of the counterpart, also for a group.
GroupingKey_person(pm) == person_key_from(pm)

\* The parse-time grouping key (lines 674-678).
GroupingKey(pm) ==
  IF Len(pm.participants) >= 2
  THEN LET parts == unique_participants(pm.participants)
       IN  GroupPrefix \o Join(<< 95 >>, SortStrings([i \in 1..Len(parts) |-> KeyElem(parts[i])]))
  ELSE person_key_from(pm)

\* A mutant of Bucket: the bucket is replaced by the new message.
Bucket_replace(g, pk, pm) == Put(g, pk, << pm >>)

\* A mutant of Bucket: a record with a new key opens an empty bucket and
\* joins a bucket that is already there.
Bucket_sticky(g, pk, pm) ==
  IF DOMAIN g = {} \/ pk \in DOMAIN g
  THEN Put(g, pk, IF pk \in DOMAIN g THEN Append(g[pk], pm) ELSE << pm >>)
  ELSE LET k0 == CHOOSE k \in DOMAIN g : TRUE
       IN  [Put(g, pk, << >>) EXCEPT ![k0] = Append(g[k0], pm)]

\* groups[pk].append(pm) on the defaultdict
Bucket(g, pk, pm) == Put(g, pk, IF pk \in DOMAIN g THEN Append(g[pk], pm) ELSE << pm >>)

\* groups[pk].append(pm), and the warning of the resolver on stderr.
Accumulate(pm, pk, w) ==
  /\ groups' = Bucket(groups, pk, pm)
  /\ order' = IF pk \in DOMAIN groups THEN order ELSE Append(order, pk)
  /\ stderr' = IF w = << >> THEN stderr
               ELSE Append(stderr, WarnLine("ambiguous", pm.source_path, w[1]))

\* One turn of the loop over paths in which the file parses (lines 670-679).
ParseOk ==
  /\ pc = "parse"
  /\ count < npaths
  /\ \E msg \in inputs :
       \E pm \in {parse_eml_file(count + 1, msg, self_email)} :
         \E pk \in {GroupingKey(pm)} :
           Accumulate(pm, pk, guess_direction_and_parties(msg, self_email).warn)
  /\ count' = count + 1
  /\ UNCHANGED << npaths, self_email, inputs, pc, tpos, total_messages, total_threads, report >>
  /\ UNCHANGED outVars
  /\ UNCHANGED << resolveVars, dedupeVars, partVars, identVars >>

\* A mutant of ParseFail: the exception ends the run.
ParseFail_abort ==
  /\ pc = "parse"
  /\ count < npaths
  /\ stderr' = Append(stderr, WarnLine("failed", count + 1, NoHeaders))
  /\ pc' = "done"
  /\ UNCHANGED << npaths, self_email, inputs, count, groups, order, tpos, total_messages,
                  total_threads, report >>
  /\ UNCHANGED outVars
  /\ UNCHANGED << resolveVars, dedupeVars, partVars, identVars >>

\* One turn of the loop in which parse_eml_file raises (lines 680-681).
ParseFail ==
  /\ pc = "parse"
  /\ count < npaths
  /\ stderr' = Append(stderr, WarnLine("failed", count + 1, NoHeaders))
  /\ count' = count + 1
  /\ UNCHANGED << npaths, self_email, inputs, groups, order, pc, tpos, total_messages, total_threads,
                  report >>
  /\ UNCHANGED outVars
  /\ UNCHANGED << resolveVars, dedupeVars, partVars, identVars >>

RECURSIVE SumLen(_, _)
SumLen(g, keys) ==
  IF keys = << >> THEN 0 ELSE Len(g[keys[1]]) + SumLen(g, Tail(keys))

\* The loop is over: the totals before writing (lines 690-691).
EndParse ==
  /\ pc = "parse"
  /\ count = npaths
  /\ total_messages' = SumLen(groups, order)
  /\ total_threads' = Len(order)
  /\ pc' = "combine"
  /\ UNCHANGED << tpos, report >>
  /\ UNCHANGED accVars
  /\ UNCHANGED outVars
  /\ UNCHANGED << resolveVars, dedupeVars, partVars, identVars >>

SkipEntry(thread_key, reason, n) == [thread |-> thread_key, reason |-> reason, count |-> n]

\* One turn of the thread loop that skips the thread (lines 703-711).
CombineSkip ==
  /\ pc = "combine"
  /\ tpos <= Len(order)
  /\ \E thread_key \in {order[tpos]} :
     \E msgs \in {groups[thread_key]} :
     \E r \in {combine_for_person(thread_key, msgs)} :
         /\ r.reason # "none"
         /\ total_dedup_removed' = total_dedup_removed + r.dedup_removed
         /\ skipped' = Append(skipped, SkipEntry(thread_key, r.reason, Len(msgs)))
         /\ skipped_message_count' = skipped_message_count + Len(msgs)
         /\ improper_number_threads' =
              IF r.reason = "improper_number_thread"
              THEN Append(improper_number_threads, thread_key)
              ELSE improper_number_threads
  /\ tpos' = tpos + 1
  /\ UNCHANGED << pc, total_messages, total_threads, report, summary, eml_files, json_files >>
  /\ UNCHANGED accVars
  /\ UNCHANGED << resolveVars, dedupeVars, partVars, identVars >>

\* One turn of the thread loop that writes the thread (lines 574-628, 712).
CombineWrite ==
  /\ pc = "combine"
  /\ tpos <= Len(order)
  /\ \E thread_key \in {order[tpos]} :
     \E msgs \in {groups[thread_key]} :
     \E r \in {combine_for_person(thread_key, msgs)} :
         /\ r.reason = "none"
         /\ total_dedup_removed' = total_dedup_removed + r.dedup_removed
         /\ eml_files' = Put(eml_files, r.eml_name,
                             [subject |-> r.json_obj.thread_label,
                              key |-> r.json_obj.thread_key,
                              From |-> r.json_obj.self_address,
                              attached |-> [i \in 1..Len(r.messages) |->
                                              r.messages[i].source_path]])
         /\ json_files' = Put(json_files, r.json_name, r.json_obj)
         /\ summary' = Append(summary,
                              [thread_key |-> thread_key, eml |-> r.eml_name,
                               json |-> r.json_name, n |-> Len(msgs),
                               dedup_removed |-> r.dedup_removed])
  /\ tpos' = tpos + 1
  /\ UNCHANGED << pc, total_messages, total_threads, report, skipped,
                  skipped_message_count, improper_number_threads >>
  /\ UNCHANGED accVars
  /\ UNCHANGED << resolveVars, dedupeVars, partVars, identVars >>

\* sum(n for _,_,_,n,_ in summary) - sum(d for *_, d in summary)
RECURSIVE MessagesWritten(_)
MessagesWritten(entries) ==
  IF entries = << >> THEN 0
  ELSE entries[1].n - entries[1].dedup_removed + MessagesWritten(Tail(entries))

\* summary_report.json (lines 728-750).
WriteReport ==
  /\ pc = "combine"
  /\ tpos > Len(order)
  /\ report' = << [files_input |-> npaths,
                   threads_total |-> total_threads,
                   threads_written |-> Len(summary),
                   threads_skipped |-> Len(skipped),
                   messages_total |-> total_messages,
                   messages_written |-> MessagesWritten(summary),
                   messages_deduplicated_removed |-> total_dedup_removed,
                   messages_skipped |-> skipped_message_count,
                   threads_skipped_improper_number |-> Len(improper_number_threads)] >>
  /\ pc' = "done"
  /\ UNCHANGED << tpos, total_messages, total_threads >>
  /\ UNCHANGED accVars
  /\ UNCHANGED outVars
  /\ UNCHANGED << resolveVars, dedupeVars, partVars, identVars >>

Next ==
  \/ ParseOk
  \/ ParseFail
  \/ EndParse
  \/ CombineSkip
  \/ CombineWrite
  \/ WriteReport

Spec == Init /\ [][Next]_vars

\* --------------------------------------- the resolver on its own

\* "Sent"
SentLabel == << 83, 101, 110, 116 >>

\* "INBOX"
InboxLabel == << 73, 78, 66, 79, 88 >>

\* "Received"
ReceivedLabel == << 82, 101, 99, 101, 105, 118, 101, 100 >>

\* "2 "
TypeOutSpace == << 50, 32 >>

\* "3"
TypeOther == << 51 >>

\* "407-555-1234"
BobDashed == << 52, 48, 55, 45, 53, 53, 53, 45, 49, 50, 51, 52 >>

\* The From or To header: missing, self, or Bob.
HeaderValues ==
  { << >>, << Pair(None, SelfPlus) >>, << Pair(None, SelfMail) >>, << Pair(BobName, BobPlus) >> }

\* The messages the resolver is called on, with and without a Message-ID.
ResolveInputs ==
  { Eml(from, to, smstype, address, labels, mid, 1000, BodyHi) :
      mid \in {IdA, None}, from \in HeaderValues, to \in HeaderValues,
      smstype \in {None, TypeIn, TypeOutSpace, TypeOther},
      address \in {None, BobPhone, BobDashed, SelfPhone},
      labels \in {<< >>, << SentLabel >>, << InboxLabel >>, << ReceivedLabel >>,
                 << InboxLabel, SentLabel >>} }

InitResolve ==
  /\ NoBatch
  /\ g_msg \in ResolveInputs
  /\ g_out = << >>
  /\ NoDedupe
  /\ NoParticipants
  /\ NoIdentity

\* The call of guess_direction_and_parties (line 362).
Resolve ==
  /\ g_out = << >>
  /\ g_out' = << guess_direction_and_parties(g_msg, SelfEmails) >>
  /\ UNCHANGED << g_msg, batchVars, dedupeVars, partVars, identVars >>

SpecResolve == InitResolve /\ [][Resolve]_vars

\* --------------------------------------- dedupe_messages on its own

\* "b"
IdB == << 98 >>

\* The files the messages of one thread are parsed from.
DedupeFiles ==
  { Plain(<< Pair(BobName, BobPlus) >>, ToSelf, mid, 1000, body) :
      mid \in {None, IdA, IdASpace, IdB}, body \in {BodyHi, BodyYo} }

InitDedupe ==
  /\ NoBatch
  /\ NoResolve
  /\ NoDedupe
  /\ NoParticipants
  /\ NoIdentity

\* One more message of the thread, as groups[pk].append(pm) collects them.
AddMessage ==
  /\ dd_first = << >>
  /\ Len(dd_messages) < MaxMsgs
  /\ \E e \in DedupeFiles :
       dd_messages' = Append(dd_messages, parse_eml_file(Len(dd_messages) + 1, e, SelfEmails))
  /\ UNCHANGED << dd_first, dd_second, batchVars, resolveVars, partVars, identVars >>

\* dedupe_messages(messages) (line 527)
Dedupe ==
  /\ dd_first = << >>
  /\ dd_first' = << dedupe_messages(dd_messages) >>
  /\ UNCHANGED << dd_messages, dd_second, batchVars, resolveVars, partVars, identVars >>

\* dedupe_messages on the list the first call returned
DedupeAgain ==
  /\ dd_first # << >>
  /\ dd_second = << >>
  /\ dd_second' = << dedupe_messages(dd_first[1].out) >>
  /\ UNCHANGED << dd_messages, dd_first, batchVars, resolveVars, partVars, identVars >>

NextDedupe ==
  \/ AddMessage
  \/ Dedupe
  \/ DedupeAgain

SpecDedupe == InitDedupe /\ [][NextDedupe]_vars

\* ------------------------------------ unique_participants on its own

\* "bob "
BobLower == << 98, 111, 98, 32 >>

\* "B@x.com"
BenUpper == << 66, 64, 120, 46, 99, 111, 109 >>

Observation(nm, ad, ph) == [name |-> nm, addr |-> ad, phone |-> ph]

\* The observations: as collect_participants makes them (phone is
\* sanitize_phoneish(addr)), and with the address or all of it missing.
Observations ==
  { Observation(BobName, BobPlus, sanitize_phoneish(BobPlus)),
    Observation(BobPhone, BobPhone, sanitize_phoneish(BobPhone)),
    Observation(None, None, BobPhone),
    Observation(None, BenMail, sanitize_phoneish(BenMail)),
    Observation(BobName, BenUpper, sanitize_phoneish(BenUpper)),
    Observation(BobName, None, None),
    Observation(BobLower, None, None),
    Observation(ShortCode, ShortCodeAt, sanitize_phoneish(ShortCodeAt)),
    Observation(BobName, ShortCodeAt, sanitize_phoneish(ShortCodeAt)),
    Observation(None, None, None) }

InitParticipants ==
  /\ NoBatch
  /\ NoResolve
  /\ NoDedupe
  /\ NoParticipants
  /\ NoIdentity

\* One turn of the loop of unique_participants (lines 476-489); id(p) is the
\* position of the observation.
MergeOne ==
  /\ up_result = << >>
  /\ Len(part_list) < MaxParts
  /\ \E p \in Observations :
       /\ part_list' = Append(part_list, p)
       /\ up_out' = MergeStep(up_out, p, Len(part_list) + 1)
  /\ UNCHANGED << up_result, batchVars, resolveVars, dedupeVars, identVars >>

\* The return of unique_participants (line 490).
ReturnParticipants ==
  /\ up_result = << >>
  /\ up_result' = << unique_participants(part_list) >>
  /\ UNCHANGED << part_list, up_out, batchVars, resolveVars, dedupeVars, identVars >>

NextParticipants ==
  \/ MergeOne
  \/ ReturnParticipants

SpecParticipants == InitParticipants /\ [][NextParticipants]_vars

\* --------------------------- the identity normalizer on its own

\* "941266060": a self phone number of 9 digits
ShortSelf == SubSeq(SelfPhone, 1, 9)

\* args.self_email: the defaults of --self-email, and the defaults with an
\* identifier appended (action='append' adds to the default list).
SelfConfigs == { SelfEmails, SelfEmails \o << ShortSelf >> }

\* "(941) 266-0605"
FormattedSelf == << 40, 57, 52, 49, 41, 32, 50, 54, 54, 45, 48, 54, 48, 53 >>

\* "5551234"
SevenDigits == << 53, 53, 53, 49, 50, 51, 52 >>

\* What is written before a number: nothing, "1", "+1".
Prefixes == { << >>, << 49 >>, << 43, 49 >> }

\* What is written after it: nothing, "@unknown.email", "@2.io",
\* "@UNKNOWN.EMAIL ".
Suffixes ==
  { << >>, UnknownEmail, << 64, 50, 46, 105, 111 >>,
    << 64, 85, 78, 75, 78, 79, 87, 78, 46, 69, 77, 65, 73, 76, 32 >> }

\* The numbers and names written: 10 digits, 10 digits formatted, 7, 6, 9 and
\* 11 digits, "bob".
Bodies ==
  { SelfPhone, BobPhone, FormattedSelf, SevenDigits, SubSeq(SevenDigits, 1, 6),
    ShortSelf, << 50 >> \o BobPhone, << 98, 111, 98 >> }

\* The strings the normalizer is called on: header addresses and names.
IdentityInputs ==
  { pre \o body \o suf : pre \in Prefixes, body \in Bodies, suf \in Suffixes }
  \cup { None, << 32 >>, SelfMail }

\* A batch run with a self identifier that is no phone number of 10 digits
\* appended to the defaults.
InitStartup ==
  /\ npaths \in 1..MaxFiles
  /\ pc = "parse"
  /\ self_email \in SelfConfigs \ {SelfEmails}
  /\ inputs = BatchFiles
  /\ Fresh
  /\ NoResolve
  /\ NoDedupe
  /\ NoParticipants
  /\ NoIdentity

SpecStartup == InitStartup /\ [][Next]_vars

\* ------------------------------------ a batch run over a phone archive

\* The longest worklist of the archive run.
MaxArchive == 4

\* "4075559999"
OtherPhone == << 52, 48, 55, 53, 53, 53, 57, 57, 57, 57 >>

\* "+14075559999@unknown.email"
OtherPlus == << 43, 49 >> \o OtherPhone \o UnknownEmail

\* "old@x.com": an address of the user's that is not among the self
\* identifiers
OldMail == << 111, 108, 100, 64, 120, 46, 99, 111, 109 >>

\* The files of an archive as the SMS export writes them: two contacts saved
\* as "Bob" under two numbers, with two messages from each, and two messages
\* sent to Bob from old@x.com, typed as sent (X-smssync-type 2) and with
\* Bob's number as X-smssync-address.
ArchiveFiles ==
  { Eml(<< Pair(BobName, BobPlus) >>, ToSelf, TypeIn, BobPhone, << >>, None, 1000, BodyHi),
    Eml(<< Pair(BobName, BobPlus) >>, ToSelf, TypeIn, BobPhone, << >>, None, 500, BodyYo),
    Eml(<< Pair(BobName, OtherPlus) >>, ToSelf, TypeIn, OtherPhone, << >>, None, 1000, BodyHi),
    Eml(<< Pair(BobName, OtherPlus) >>, ToSelf, TypeIn, OtherPhone, << >>, None, 500, BodyYo),
    Eml(<< Pair(None, OldMail) >>, << Pair(BobName, BobPlus) >>, TypeOut, BobPhone, << >>,
        None, 1000, BodyOk),
    Eml(<< Pair(None, OldMail) >>, << Pair(BobName, BobPlus) >>, TypeOut, BobPhone, << >>,
        None, 500, BodyOk) }

\* A batch run over 1..MaxArchive files of the archive with the default
\* self identifiers.
InitArchive ==
  /\ npaths \in 1..MaxArchive
  /\ pc = "parse"
  /\ self_email = SelfEmails
  /\ inputs = ArchiveFiles
  /\ Fresh
  /\ NoResolve
  /\ NoDedupe
  /\ NoParticipants
  /\ NoIdentity

SpecArchive == InitArchive /\ [][Next]_vars

InitIdentity ==
  /\ npaths = 0
  /\ pc = "done"
  /\ self_email \in SelfConfigs
  /\ inputs = {}
  /\ Fresh
  /\ NoResolve
  /\ NoDedupe
  /\ NoParticipants
  /\ id_in \in IdentityInputs
  /\ id_phone = << >>
  /\ id_self = << >>

\* The call sanitize_phoneish(ad) (line 261).
Sanitize ==
  /\ id_phone = << >>
  /\ id_phone' = << sanitize_phoneish(id_in) >>
  /\ UNCHANGED << id_in, id_self, batchVars, resolveVars, dedupeVars, partVars >>

\* The call is_self_addr(ad, SELF) (line 252), SELF built on line 245.
IsSelf ==
  /\ id_self = << >>
  /\ id_self' = << is_self_addr(id_in, build_self_set(self_email)) >>
  /\ UNCHANGED << id_in, id_phone, batchVars, resolveVars, dedupeVars, partVars >>

NextIdentity ==
  \/ Sanitize
  \/ IsSelf

SpecIdentity == InitIdentity /\ [][NextIdentity]_vars

\* ------------------------------------------------------------ claims

\* The threads the thread loop has finished with.
Processed == {order[i] : i \in 1..(tpos - 1)}

\* The messages of thread k that message deduplication leaves.
Survivors(k) == dedupe_messages(groups[k]).out

Written(k) == \E i \in 1..Len(summary) : summary[i].thread_key = k

SkippedAs(k, reason) ==
  \E i \in 1..Len(skipped) :
    skipped[i] = [thread |-> k, reason |-> reason, count |-> Len(groups[k])]

\* C1: after any batch run, no thread that has exactly one message left
\* after message deduplication is written to output; every such thread is
\* recorded as skipped with the single-message-thread reason.
C1_SingleMessageThreadSkipped ==
  /\ \A k \in Processed :
       Len(Survivors(k)) = 1 =>
         ~ Written(k) /\ SkippedAs(k, "single_message_thread")
  /\ \A f \in DOMAIN json_files : json_files[f].message_count # 1
  /\ \A f \in DOMAIN eml_files : Len(eml_files[f].attached) # 1

\* A finished run in which a thread of two files was left with one message.
C1_Witness ==
  /\ pc = "done"
  /\ \E k \in Processed :
       Len(groups[k]) = 2 /\ Len(Survivors(k)) = 1 /\ SkippedAs(k, "single_message_thread")

\* '+', '-', '(', ')', '.' and blanks: what a written phone number holds
\* besides digits.
PhoneMarks == {43, 45, 40, 41, 46} \cup Whitespace

\* s is written as a phone number: digits and phone marks before any '@'.
PhoneShaped(s) ==
  /\ DigitsOf(BeforeAt(s)) # << >>
  /\ \A i \in 1..Len(BeforeAt(s)) :
       IsDigit(BeforeAt(s)[i]) \/ BeforeAt(s)[i] \in PhoneMarks

\* s is phone-shaped and does not normalize to exactly 10 digits.
ImproperIdentity(s) ==
  PhoneShaped(s) /\ Len(DropTrunk(DigitsOf(BeforeAt(s)))) # ProperLen

\* Thread k is one-to-one with a counterpart of improper identity and has
\* two or more surviving messages.
ImproperThread(k) ==
  /\ Len(Survivors(k)) >= 2
  /\ ~ combine_for_person(k, groups[k]).is_group
  /\ \A i \in 1..Len(groups[k]) : ImproperIdentity(groups[k][i].person_addr)

\* C2: every one-to-one thread with two or more surviving messages whose
\* counterpart identity is phone-shaped but does not normalize to exactly 10
\* digits, in whatever written form the address appears, is excluded from
\* output and recorded as skipped with the improper-counterpart reason, its
\* messages counted as skipped.
C2_ImproperCounterpartSkipped ==
  \A k \in Processed :
    ImproperThread(k) =>
      /\ ~ Written(k)
      /\ SkippedAs(k, "improper_number_thread")
      /\ \E i \in 1..Len(improper_number_threads) : improper_number_threads[i] = k

\* The failing case of C2: a processed one-to-one thread of improper
\* counterpart identity that was written.
C2_Witness ==
  \E k \in Processed : k = ShortCodeAt /\ ImproperThread(k) /\ Written(k)

\* The first From and To addresses of the resolver's message, and whether
\* each matches the self-set.
FromOf(m) == first_addr(m.From)
ToOf(m) == first_addr(m.To)
FromIsSelf(m) == is_self_addr(FromOf(m).addr, build_self_set(SelfEmails))
ToIsSelf(m) == is_self_addr(ToOf(m).addr, build_self_set(SelfEmails))

\* The resolver answered outbound with the To header as counterpart.
OutboundTo(m, g) ==
  /\ g.direction = "out"
  /\ g.person_name = ToOf(m).name
  /\ ToOf(m).addr # None => g.person_addr = ToOf(m).addr
  /\ g.self_addr = FromOf(m).addr

\* The resolver answered inbound with the From header as counterpart.
InboundFrom(m, g) ==
  /\ g.direction = "in"
  /\ g.person_name = FromOf(m).name
  /\ FromOf(m).addr # None => g.person_addr = FromOf(m).addr
  /\ g.self_addr = ToOf(m).addr

\* The header's role decides: outbound when only From is self, inbound when
\* only To is self.
RoleDecides(m, g) ==
  /\ FromIsSelf(m) /\ ~ ToIsSelf(m) => OutboundTo(m, g)
  /\ ToIsSelf(m) /\ ~ FromIsSelf(m) => InboundFrom(m, g)

\* The explicit type hint of m is inbound or outbound.
TypeHinted(m) == Strip(m.smstype) \in {TypeIn, TypeOut}

\* The counterpart-address hint of m is contained in the address ad or
\* names the same phone number.
HintMatches(m, ad) ==
  /\ Strip(m.address) # None
  /\ \/ ad # None /\ Contains(Strip(m.address), ad)
     \/ /\ sanitize_phoneish(Strip(m.address)) # None
        /\ sanitize_phoneish(ad) = sanitize_phoneish(Strip(m.address))

HintAligned(m) == HintMatches(m, FromOf(m).addr) \/ HintMatches(m, ToOf(m).addr)

\* C3 as stated: for every message record in which exactly one of the From
\* and To addresses matches the self-set, the direction matches that header's
\* role, outbound when From is self and inbound when To is self, with the
\* non-self header as counterpart.
C3_SelfSetDecides ==
  g_out # << >> => RoleDecides(g_msg, g_out[1])

\* C3, amended: the same, for the records that carry no explicit type hint
\* and no counterpart-address hint matching the From or To address.
C3_SelfSetDecidesUnhinted ==
  g_out # << >> /\ ~ TypeHinted(g_msg) /\ ~ HintAligned(g_msg) => RoleDecides(g_msg, g_out[1])

\* An unhinted record from self to Bob, resolved as outbound to Bob.
C3_Witness ==
  /\ g_out # << >>
  /\ ~ TypeHinted(g_msg) /\ ~ HintAligned(g_msg)
  /\ FromIsSelf(g_msg) /\ ~ ToIsSelf(g_msg)
  /\ ToOf(g_msg).addr = BobPlus
  /\ g_out[1].direction = "out" /\ g_out[1].person_addr = BobPlus

\* C4: when the explicit type hint is inbound or outbound the resolver
\* returns exactly that direction, counterpart the From header and self the To
\* header for inbound, the reverse for outbound, whatever the address hint,
\* the self-set or the folder hint say; no later rule is consulted.
C4_TypeHintWins ==
  g_out # << >> =>
    /\ Strip(g_msg.smstype) = TypeIn =>
         g_out[1] = Resolved("in", FromOf(g_msg).name, FromOf(g_msg).addr,
                             ToOf(g_msg).addr, << >>)
    /\ Strip(g_msg.smstype) = TypeOut =>
         g_out[1] = Resolved("out", ToOf(g_msg).name, ToOf(g_msg).addr,
                             FromOf(g_msg).addr, << >>)

\* A record typed inbound although From is self, the address hint names the
\* To header and the folder is the sent folder, resolved as inbound.
C4_Witness ==
  /\ g_out # << >>
  /\ Strip(g_msg.smstype) = TypeIn
  /\ FromIsSelf(g_msg) /\ ~ ToIsSelf(g_msg)
  /\ HintMatches(g_msg, ToOf(g_msg).addr)
  /\ folder_hint_direction(g_msg) = "out"
  /\ g_out[1].direction = "in"

\* C5: message deduplication is idempotent: dedupe_messages applied to the
\* output of dedupe_messages returns the same list and a removed count of 0.
C5_DedupeIdempotent ==
  dd_second # << >> =>
    dd_second[1].out = dd_first[1].out /\ dd_second[1].removed = 0

\* A list that lost a message in the first pass and kept two.
C5_Witness ==
  /\ dd_second # << >>
  /\ dd_first[1].removed >= 1
  /\ Len(dd_first[1].out) >= 2

\* a is b with some of its elements left out.
RECURSIVE IsSubsequence(_, _)
IsSubsequence(a, b) ==
  IF a = << >> THEN TRUE
  ELSE IF b = << >> THEN FALSE
  ELSE IF a[1] = b[1] THEN IsSubsequence(Tail(a), Tail(b))
  ELSE IsSubsequence(a, Tail(b))

\* What the first n threads lost to message deduplication.
RECURSIVE RemovedUpTo(_)
RemovedUpTo(n) ==
  IF n = 0 THEN 0
  ELSE Len(groups[order[n]]) - Len(Survivors(order[n])) + RemovedUpTo(n - 1)

\* C6: deduplication never loses a message uncounted: for every thread the
\* survivors are a subsequence of the input, survivors plus the removed
\* counter is the number of input messages, and that counter is what the
\* thread adds to the report's duplicate-removed total.
C6_DedupeCounted ==
  /\ \A k \in DOMAIN groups :
       \E d \in {dedupe_messages(groups[k])} :
         IsSubsequence(d.out, groups[k]) /\ Len(d.out) + d.removed = Len(groups[k])
  /\ total_dedup_removed = RemovedUpTo(tpos - 1)
  /\ \A f \in DOMAIN json_files :
       \E i \in 1..Len(summary) :
         /\ summary[i].json = f
         /\ json_files[f].deduplicated_messages_removed = summary[i].dedup_removed
         /\ json_files[f].message_count + summary[i].dedup_removed = summary[i].n
  /\ report # << >> =>
       report[1].messages_deduplicated_removed = RemovedUpTo(Len(order))

\* A finished run that wrote a thread which had lost a duplicate.
C6_Witness ==
  /\ report # << >>
  /\ report[1].messages_deduplicated_removed >= 1
  /\ \E i \in 1..Len(summary) : summary[i].dedup_removed >= 1 /\ summary[i].n >= 3

\* C7: within one finalized thread no two participants share a merge key:
\* the participants unique_participants returns have pairwise distinct keys
\* (phone digits, else normalized address, else normalized name).
C7_DistinctMergeKeys ==
  up_result # << >> =>
    \A i, j \in 1..Len(up_result[1]) :
      i # j => participant_key(up_result[1][i], i) # participant_key(up_result[1][j], j)

\* Three observations merged into two participants.
C7_Witness ==
  /\ up_result # << >>
  /\ Len(part_list) = 3
  /\ Len(up_result[1]) = 2

\* One step of the merge: no more participants than observations, and an
\* address or phone that is set stays as it is.
OnlyAccumulates ==
  /\ Len(up_out') <= Len(part_list')
  /\ Len(up_out') >= Len(up_out)
  /\ \A i \in 1..Len(up_out) :
       /\ up_out[i].addr # None => up_out'[i].addr = up_out[i].addr
       /\ up_out[i].phone # None => up_out'[i].phone = up_out[i].phone
  /\ up_result' # << >> => Len(up_result'[1]) <= Len(part_list')

\* C8: participant deduplication never increases the participant count and
\* never discards an address or phone once observed: while observations are
\* merged a participant's address and phone only go from empty to set.
C8_ParticipantsOnlyAccumulate == [][OnlyAccumulates]_vars

\* A participant first seen without an address has one after a later
\* observation of the same key, and the list returned is shorter than the
\* list of observations.
C8_Witness ==
  /\ up_result # << >>
  /\ Len(up_result[1]) < Len(part_list)
  /\ \E i \in 1..Len(up_out) :
       /\ up_out[i].addr # None
       /\ \E j \in 1..Len(part_list) :
            /\ part_list[j].addr = None
            /\ participant_key(part_list[j], j) = up_out[i].key
            /\ \A l \in 1..(j - 1) : participant_key(part_list[l], l) # up_out[i].key

\* The places (bucket, position) that hold the record parsed from path.
Holders(path) ==
  UNION { { << k, i >> : i \in {j \in 1..Len(groups[k]) : groups[k][j].source_path = path} } :
          k \in DOMAIN groups }

\* The file at path failed to parse.
Failed(path) ==
  \E i \in 1..Len(stderr) : stderr[i].kind = "failed" /\ stderr[i].path = path

\* Every file parsed so far is held exactly once, a failed one nowhere.
HeldOnce ==
  \A path \in 1..count :
    Cardinality(Holders(path)) = (IF Failed(path) THEN 0 ELSE 1)

\* Every bucket is still there and still starts with what it held.
OnlyAppended ==
  \A k \in DOMAIN groups :
    /\ k \in DOMAIN groups'
    /\ Len(groups'[k]) >= Len(groups[k])
    /\ SubSeq(groups'[k], 1, Len(groups[k])) = groups[k]

\* C9: at every point of the accumulation loop each successfully parsed
\* record is held in exactly one thread bucket, and processing later records
\* only appends to buckets: no record is moved, duplicated or removed, and no
\* bucket is split or merged before finalization.
C9_OneBucketAppendOnly == [][OnlyAppended /\ HeldOnce']_vars

\* Three files parsed: two records in one bucket, the third in another.
C9_Witness ==
  /\ pc = "parse"
  /\ count = 3
  /\ \E k1, k2 \in DOMAIN groups :
       k1 # k2 /\ Len(groups[k1]) = 2 /\ Len(groups[k2]) = 1

\* Messages a then b are in the order of the sort key (timestamp, message
\* identifier, a missing identifier being ""), input order among equals.
InOrder(a, b) ==
  \/ a.timestamp_ms < b.timestamp_ms
  \/ /\ a.timestamp_ms = b.timestamp_ms
     /\ \/ StrLess(a.message_id, b.message_id)
        \/ a.message_id = b.message_id /\ a.source_eml < b.source_eml

\* C10: the messages of every written thread are ordered by timestamp
\* ascending, ties broken by message identifier ascending, and messages equal
\* on both keep the order in which they were read (stable sort).
C10_WrittenThreadsSorted ==
  \A f \in DOMAIN json_files :
    \A i \in 1..(Len(json_files[f].messages) - 1) :
      InOrder(json_files[f].messages[i], json_files[f].messages[i + 1])

\* A written thread of three messages with the same timestamp: the two
\* without identifier in the order read, before the one with an identifier
\* that was read first.
C10_Witness ==
  \E f \in DOMAIN json_files :
    \E ms \in {json_files[f].messages} :
      /\ Len(ms) = 3
      /\ ms[1].timestamp_ms = ms[3].timestamp_ms
      /\ ms[1].message_id = None /\ ms[2].message_id = None /\ ms[3].message_id # None
      /\ ms[3].source_eml < ms[1].source_eml /\ ms[1].source_eml < ms[2].source_eml

\* d is a phone number of 10 digits.
TenDigits(d) == Len(d) = 10 /\ \A i \in 1..Len(d) : IsDigit(d[i])

\* The supported written forms of the number d: bare, with a leading 1, with
\* +1, each with or without an e-mail suffix out of sufs.
WrittenForms(d, sufs) ==
  { pre \o d \o suf : pre \in { << >>, << 49 >>, << 43, 49 >> }, suf \in {<< >>} \cup sufs }

\* C11: for every valid 10-digit phone number, the phone candidate computed
\* from each of its supported written forms (bare, leading 1, +1, each with
\* and without an e-mail-shaped suffix) is that same 10-digit string.
C11_WrittenFormsAgree ==
  id_phone # << >> =>
    \A d \in Bodies :
      TenDigits(d) /\ id_in \in WrittenForms(d, Suffixes) => id_phone[1] = d

\* The +1 form with the e-mail suffix gave the bare 10 digits.
C11_Witness ==
  /\ id_in = << 43, 49 >> \o BobPhone \o UnknownEmail
  /\ id_phone = << BobPhone >>

\* The digits of s before any '@', without the leading 1 of 11 digits.
RemainingDigits(s) ==
  LET d == SelectSeq(BeforeAt(s), IsDigit)
  IN  IF Len(d) = 11 /\ d[1] = 49 THEN Tail(d) ELSE d

\* C12 as stated: the normalizer yields a phone candidate only when, after
\* stripping the non-digits and dropping the leading 1 of an 11-digit string,
\* exactly 10 digits remain; for every other input there is no candidate.
C12_ExactlyTenDigits ==
  id_phone # << >> =>
    /\ id_phone[1] # None => Len(RemainingDigits(id_in)) = 10
    /\ Len(RemainingDigits(id_in)) # 10 => id_phone[1] = None

\* C12, amended: the normalizer yields a phone candidate, the remaining
\* digits, exactly when at least 7 digits remain; with fewer than 7 there is
\* no candidate.
C12_AtLeastSevenDigits ==
  id_phone # << >> =>
    /\ Len(RemainingDigits(id_in)) >= 7 => id_phone[1] = RemainingDigits(id_in)
    /\ Len(RemainingDigits(id_in)) < 7 => id_phone[1] = None

\* A number of 7 digits gave a candidate of 7 digits.
C12_Witness ==
  /\ id_in = SevenDigits
  /\ id_phone = << SevenDigits >>

\* The expanded self-set: the configured identifiers and the six written
\* forms of the configured 10-digit phone.
ExpandedSelf ==
  { self_email[i] : i \in 1..Len(self_email) } \cup WrittenForms(SelfPhone, {UnknownEmail})

\* s names the phone number of a member of the expanded self-set.
SamePhoneAsSelf(s) ==
  \E m \in ExpandedSelf :
    RemainingDigits(m) = RemainingDigits(s) /\ Len(RemainingDigits(s)) >= 7

\* C19: an address is detected as self iff its trimmed, lower-cased form is
\* a member of the expanded self-set or its phone candidate is that of a
\* member; all six written forms of a configured 10-digit self phone are
\* detected as self.
C19_SelfDetected ==
  id_self # << >> =>
    /\ id_self[1] <=> \/ normalize_addr(id_in) \in ExpandedSelf
                      \/ SamePhoneAsSelf(normalize_addr(id_in))
    /\ id_in \in WrittenForms(SelfPhone, {UnknownEmail}) => id_self[1]

\* The formatted number, no member of the self-set, was detected as self.
C19_Witness ==
  /\ id_in = FormattedSelf
  /\ normalize_addr(id_in) \notin ExpandedSelf
  /\ id_self = << TRUE >>

\* Message A as parsed with the self phone 9412660605, whatever its file.
ParsedA == parse_eml_file(0, MessageA, SelfEmails)

\* The record pm was parsed from a copy of message A.
CopyOfA(pm) == [pm EXCEPT !.source_path = 0] = ParsedA

\* Bucket k holds message A and its byte-identical resend, nothing else.
ResendBucket(k) ==
  /\ Len(groups[k]) = 2
  /\ CopyOfA(groups[k][1])
  /\ CopyOfA(groups[k][2])

\* C13: with self phone 9412660605, message A (to +19412660605@unknown.email,
\* from +14075551234@unknown.email, body "hi", timestamp 1000) followed by a
\* byte-identical resend is held under the key 4075551234, and after
\* reconciliation that thread has exactly one message, of direction inbound.
C13_ResendReconciled ==
  \A k \in DOMAIN groups :
    ResendBucket(k) =>
      /\ k = BobPhone
      /\ \E r \in {combine_for_person(k, groups[k])} :
           /\ Len(r.messages) = 1
           /\ r.messages[1].direction = "in"
           /\ r.dedup_removed = 1
      /\ k \in Processed => total_dedup_removed >= 1

\* A finished run over A and its resend: the thread of 4075551234 was
\* reconciled and lost one message.
C13_Witness ==
  /\ pc = "done"
  /\ BobPhone \in DOMAIN groups
  /\ ResendBucket(BobPhone)
  /\ report[1].messages_deduplicated_removed = 1

\* The identifier of a participant in a thread key: the phone digits, else
\* the address as written, else the name.
LabelOf(p) == IF p.phone # None THEN p.phone ELSE IF p.addr # None THEN p.addr ELSE p.name

\* The merge key of a participant: the phone digits, else the normalized
\* address, else the normalized name.
MergeKeyOf(p) ==
  IF p.phone # None THEN p.phone
  ELSE IF normalize_addr(p.addr) # None THEN normalize_addr(p.addr)
  ELSE normalize_addr(p.name)

\* a and b in ascending order, joined by '_'.
SortedJoin(a, b) == IF StrLess(b, a) THEN b \o << 95 >> \o a ELSE a \o << 95 >> \o b

\* The record pm carries two non-self addresses of distinct merge keys.
CarriesTwo(pm) ==
  /\ Len(pm.participants) = 2
  /\ MergeKeyOf(pm.participants[1]) # MergeKeyOf(pm.participants[2])

\* The thread of bucket k, once written, has two participants and is a group.
WrittenAsGroupOfTwo(k) ==
  \A i \in 1..Len(summary) :
    summary[i].thread_key = k =>
      \E j \in {json_files[summary[i].json]} :
        /\ Len(j.participants) = 2
        /\ StartsWith(j.thread_key, GroupPrefix)
        /\ j.person_name = None

ParticipantKeys(k) ==
  UNION { { MergeKeyOf(groups[k][i].participants[j]) :
              j \in 1..Len(groups[k][i].participants) } :
          i \in 1..Len(groups[k]) }

\* The JSON file j is that of a group thread.
GroupJson(j) ==
  /\ StartsWith(j.thread_key, GroupPrefix)
  /\ StartsWith(j.thread_label, GroupSubject)

\* C15: a thread is classified once, at finalization: nothing is emitted
\* while records are accumulated, and a written thread is a group iff the
\* deduplicated participants of its messages are two or more, one-to-one
\* otherwise, whatever the shape of its provisional key.
C15_ClassifiedAtFinalization ==
  /\ pc = "parse" => summary = << >> /\ json_files = EmptyMap /\ eml_files = EmptyMap
  /\ \A i \in 1..Len(summary) :
       GroupJson(json_files[summary[i].json])
         <=> Cardinality(ParticipantKeys(summary[i].thread_key)) >= 2

\* A bucket under the one-to-one key 4075551234 that was written as a group.
C15_Witness ==
  \E i \in 1..Len(summary) :
    /\ summary[i].thread_key = BobPhone
    /\ CopyOfA(groups[BobPhone][1])
    /\ GroupJson(json_files[summary[i].json])
    /\ Len(json_files[summary[i].json].participants) = 2

\* A configured self identifier is phone-shaped and does not normalize to
\* exactly 10 digits.
InvalidSelf ==
  \E i \in 1..Len(self_email) :
    PhoneShaped(self_email[i]) /\ Len(RemainingDigits(self_email[i])) # 10

\* C16: if a configured self phone number does not normalize to exactly 10
\* digits the run fails at startup: no record is processed and no thread is
\* accumulated or written.
C16_InvalidSelfFatal ==
  InvalidSelf =>
    /\ count = 0
    /\ groups = EmptyMap
    /\ summary = << >>
    /\ json_files = EmptyMap
    /\ report = << >>

\* The failing case of C16: a run configured with a self phone of 9 digits
\* that finished and wrote a thread.
C16_Witness ==
  /\ InvalidSelf
  /\ pc = "done"
  /\ Len(summary) >= 1
  /\ report # << >>

\* This step is a record that failed to parse.
FailStep ==
  /\ Len(stderr') = Len(stderr) + 1
  /\ stderr'[Len(stderr')].kind = "failed"

\* A record failed to parse.
SomeFailed == \E path \in 1..count : Failed(path)

\* C17: a record that cannot be parsed is skipped and counted, never fatal:
\* the failure leaves every thread bucket unchanged and the loop goes on with
\* the next record, every record of the worklist has been processed when the
\* loop is left, and the batch ends only finalized, with every thread
\* handled and the report written.
C17_ParseFailureSkipped ==
  /\ [][FailStep => /\ groups' = groups
                    /\ order' = order
                    /\ count' = count + 1
                    /\ pc' = "parse"]_vars
  /\ [](pc # "parse" => count = npaths)
  /\ [](SomeFailed /\ pc = "done" =>
          /\ tpos = Len(order) + 1
          /\ report # << >>
          /\ report[1].files_input = npaths
          /\ report[1].threads_total = Len(order))

\* The first of three files failed, the other two were written as a thread.
C17_Witness ==
  /\ pc = "done"
  /\ count = 3
  /\ Failed(1) /\ ~ Failed(2) /\ ~ Failed(3)
  /\ Len(summary) = 1

\* No hint decides and From and To are both self or both not self.
AmbiguousRecord(m) ==
  /\ ~ TypeHinted(m)
  /\ ~ HintAligned(m)
  /\ FromIsSelf(m) <=> ToIsSelf(m)

\* C18: every ambiguous direction resolution (no explicit type hint, no
\* counterpart-hint match, From and To both in or both out of the self-set)
\* records one warning that carries the message identifier and the observed
\* From and To addresses, and the resolver still returns a direction.
C18_AmbiguityWarned ==
  g_out # << >> /\ AmbiguousRecord(g_msg) =>
    /\ g_out[1].direction \in {"in", "out"}
    /\ Len(g_out[1].warn) = 1
    /\ g_out[1].warn[1].mid = (IF g_msg.mid # None THEN g_msg.mid ELSE NoId)
    /\ g_out[1].warn[1].From = FromOf(g_msg).addr
    /\ g_out[1].warn[1].To = ToOf(g_msg).addr

\* A record from self to self without any hint: warned and resolved.
C18_Witness ==
  /\ g_out # << >>
  /\ AmbiguousRecord(g_msg)
  /\ FromIsSelf(g_msg) /\ ToIsSelf(g_msg)
  /\ folder_hint_direction(g_msg) = "none"
  /\ g_out[1].direction = "out"
  /\ g_out[1].warn # << >>

\* The stable identifier of a message, trimmed, and its fingerprint.
StableId(m) == Strip(m.msg_id)
FingerprintOf(m) == << m.timestamp_ms, m.body_text, m.attachments >>

\* Identity dedup over the whole list: a message whose non-empty identifier
\* occurred earlier in the list is dropped.
IdentityPass(ms) ==
  SelectSeq([i \in 1..Len(ms) |-> [at |-> i, m |-> ms[i]]],
            LAMBDA e : \/ StableId(e.m) = None
                       \/ \A j \in 1..(e.at - 1) : StableId(ms[j]) # StableId(e.m))

\* Fingerprint dedup over the survivors: a message whose fingerprint occurred
\* earlier among them is dropped.
FingerprintPass(es) ==
  SelectSeq([i \in 1..Len(es) |-> [at |-> i, m |-> es[i].m]],
            LAMBDA e : \A j \in 1..(e.at - 1) : FingerprintOf(es[j].m) # FingerprintOf(e.m))

\* The two passes in order: the surviving list and the removed count.
TwoPass(ms) ==
  LET es == FingerprintPass(IdentityPass(ms))
  IN  [out |-> [i \in 1..Len(es) |-> es[i].m], removed |-> Len(ms) - Len(es)]

\* C20 as stated: dedupe_messages is equivalent to identity dedup over the
\* whole thread followed by fingerprint dedup over the survivors: for every
\* input list the surviving list and the removed count are those of the two
\* passes.
C20_TwoPassEquivalent ==
  dd_first # << >> => dd_first[1] = TwoPass(dd_messages)

\* The positions among the first n of ms that one pass keeps: a message is
\* dropped when its non-empty identifier, or else its fingerprint, is that of
\* a message kept before it.
RECURSIVE KeptUpTo(_, _)
KeptUpTo(ms, n) ==
  IF n = 0 THEN {}
  ELSE LET K == KeptUpTo(ms, n - 1)
       IN  IF \E j \in K : \/ StableId(ms[n]) # None /\ StableId(ms[j]) = StableId(ms[n])
                           \/ FingerprintOf(ms[j]) = FingerprintOf(ms[n])
           THEN K
           ELSE K \cup {n}

\* C20, amended: dedupe_messages is one pass that applies both tests to each
\* message against the messages kept so far; a dropped message leaves neither
\* its identifier nor its fingerprint behind.  The surviving list and the
\* removed count are those of that pass.
C20_OnePassAgainstKept ==
  dd_first # << >> =>
    \E K \in {KeptUpTo(dd_messages, Len(dd_messages))} :
      /\ dd_first[1].out =
           SelectSeq(dd_messages, LAMBDA m : \E i \in K : dd_messages[i] = m)
      /\ dd_first[1].removed = Len(dd_messages) - Cardinality(K)

\* A message dropped for its fingerprint, and a later message with the same
\* identifier that survived, where the two passes would drop it.
C20_Witness ==
  /\ dd_first # << >>
  /\ Len(dd_messages) = 3
  /\ Len(dd_first[1].out) = 2
  /\ Len(TwoPass(dd_messages).out) = 1

\* The counterpart-address hint of m, stripped.
HintOf(m) == Strip(m.address)

\* The hint is a substring of the address ad.
HintContainedIn(m, ad) == ad # None /\ Contains(HintOf(m), ad)

\* The hint and the address ad name the same phone number.
HintPhoneOf(m, ad) ==
  /\ sanitize_phoneish(HintOf(m)) # None
  /\ sanitize_phoneish(ad) = sanitize_phoneish(HintOf(m))

\* Inbound, the hint as counterpart address, self the To header.
HintedInbound(m, g) ==
  /\ g.direction = "in"
  /\ g.person_name = FromOf(m).name
  /\ g.person_addr = HintOf(m)
  /\ g.self_addr = ToOf(m).addr
  /\ g.warn = << >>

\* Outbound, the hint as counterpart address, self the From header.
HintedOutbound(m, g) ==
  /\ g.direction = "out"
  /\ g.person_name = ToOf(m).name
  /\ g.person_addr = HintOf(m)
  /\ g.self_addr = FromOf(m).addr
  /\ g.warn = << >>

\* C21: with no explicit type hint and a counterpart-address hint present,
\* the hint is matched first by string containment and then by phone-digit
\* equality against the From and To addresses; a match on From yields inbound
\* and a match on To yields outbound, self being the other header; only when
\* the hint matches neither header does the self-set comparison decide (the
\* header's role when exactly one is self, a warned ambiguity otherwise).
C21_AddressHintAligns ==
  g_out # << >> /\ ~ TypeHinted(g_msg) /\ HintOf(g_msg) # None =>
    \E f \in {FromOf(g_msg).addr} : \E t \in {ToOf(g_msg).addr} :
      IF HintContainedIn(g_msg, f) THEN HintedInbound(g_msg, g_out[1])
      ELSE IF HintContainedIn(g_msg, t) THEN HintedOutbound(g_msg, g_out[1])
      ELSE IF HintPhoneOf(g_msg, f) THEN HintedInbound(g_msg, g_out[1])
      ELSE IF HintPhoneOf(g_msg, t) THEN HintedOutbound(g_msg, g_out[1])
      ELSE /\ RoleDecides(g_msg, g_out[1])
           /\ (FromIsSelf(g_msg) <=> ToIsSelf(g_msg)) <=> g_out[1].warn # << >>

\* The hint 407-555-1234 is no substring of Bob's From address but names the
\* same number: inbound from Bob although the folder is the sent folder.
C21_Witness ==
  /\ g_out # << >>
  /\ ~ TypeHinted(g_msg)
  /\ HintOf(g_msg) = BobDashed
  /\ FromOf(g_msg).addr = BobPlus
  /\ ~ HintContainedIn(g_msg, BobPlus)
  /\ folder_hint_direction(g_msg) = "out"
  /\ g_out[1].direction = "in"
  /\ g_out[1].person_addr = BobDashed

\* A folder/label header of m mentions the word w, in any case.
Mentions(m, w) == \E i \in 1..Len(m.labels) : Contains(w, StrLower(m.labels[i]))

\* The folder/label hint of m says sent; it says inbox or received.
SaysSent(m) == Mentions(m, SentWord)
SaysInbox(m) == Mentions(m, InboxWord) \/ Mentions(m, ReceivedWord)

JoinedMergeKeys(a, b) ==
  IF MergeKeyOf(a) = MergeKeyOf(b) THEN MergeKeyOf(a)
  ELSE SortedJoin(MergeKeyOf(a), MergeKeyOf(b))

\* The sorted, underscore-joined identifiers of two participants, one
\* identifier for two participants of one merge key.
JoinedLabels(a, b) ==
  IF MergeKeyOf(a) = MergeKeyOf(b) THEN LabelOf(a) ELSE SortedJoin(LabelOf(a), LabelOf(b))

\* k is the key of the counterpart the resolver found for pm: the phone
\* digits of its address, else of its name, else the address as written, else
\* the name, else a key that starts with "unknown_".
CounterpartKey(k, pm) ==
  IF sanitize_phoneish(pm.person_addr) # None THEN k = sanitize_phoneish(pm.person_addr)
  ELSE IF sanitize_phoneish(pm.person_name) # None THEN k = sanitize_phoneish(pm.person_name)
  ELSE IF pm.person_addr # None THEN k = pm.person_addr
  ELSE IF pm.person_name # None THEN k = pm.person_name
  ELSE StartsWith(k, UnknownPrefix)

\* C23 as stated: the provisional thread key of each message is computed
\* from its non-self participants, the merge key of the participant when there
\* is exactly one and the sorted, underscore-joined concatenation of the
\* distinct merge keys when there are two or more (with or without the group
\* prefix); the message is in the bucket for that key.
C23_KeyOfParticipants ==
  \A k \in DOMAIN groups :
    \A i \in 1..Len(groups[k]) :
      \E ps \in {groups[k][i].participants} :
        /\ Len(ps) = 1 => k = MergeKeyOf(ps[1])
        /\ Len(ps) = 2 =>
             \E key \in {JoinedMergeKeys(ps[1], ps[2])} : k = key \/ k = GroupPrefix \o key

\* C23, amended: with fewer than two non-self participants the key is that
\* of the resolved counterpart (phone digits of its address, else of its
\* display name, else its address as written, else its name, else
\* unknown_<direction>_<timestamp>); with two or more it is "Group_" and the
\* sorted, underscore-joined identifiers of the distinct participants (phone
\* digits, else address as written, else name); the message is in the bucket
\* for that key.
C23_KeyOfCounterpart ==
  \A k \in DOMAIN groups :
    \A i \in 1..Len(groups[k]) :
      \E ps \in {groups[k][i].participants} :
        /\ Len(ps) < 2 => CounterpartKey(k, groups[k][i])
        /\ Len(ps) = 2 => k = GroupPrefix \o JoinedLabels(ps[1], ps[2])

\* The message from "4075551234" <A@x.com>, whose one participant has the
\* merge key a@x.com, is in the bucket 4075551234.
C23_Witness ==
  /\ BobPhone \in DOMAIN groups
  /\ \E i \in 1..Len(groups[BobPhone]) :
       \E pm \in {groups[BobPhone][i]} :
         /\ Len(pm.participants) = 1
         /\ pm.participants[1].addr = AnnMail
         /\ MergeKeyOf(pm.participants[1]) = StrLower(AnnMail)

\* The permutations of 1..n.
Orders(n) == {f \in [1..n -> 1..n] : \A i, j \in 1..n : f[i] = f[j] => i = j}

\* The list s in the order f.
Permuted(s, f) == [i \in 1..Len(s) |-> s[f[i]]]

\* The final thread key built from the deduplicated participants: the group
\* key of two or more (lines 548-549), the phone, address or name of one
\* (lines 559-560).
ThreadKeyOf(parts) ==
  IF Len(parts) >= 2 THEN GroupLabels(parts).final_key
  ELSE IF parts = << >> THEN None
  ELSE Or3(parts[1].phone, parts[1].addr, parts[1].name)

\* The list is in ascending order of (phone, address, name).
SortedByPhoneAddrName(parts) ==
  \A i, j \in 1..Len(parts) :
    i < j => ~ KeyLess(ParticipantSortKey(parts[j]), ParticipantSortKey(parts[i]))

\* The observations in the order f give as many participants and the same
\* classification as in the order they came in.
SameCountAndClass(f) ==
  \E r \in {unique_participants(Permuted(part_list, f))} :
    /\ Len(r) = Len(up_result[1])
    /\ (Len(r) >= 2) = (Len(up_result[1]) >= 2)

\* The observations in the order f give the same final thread key.
SameThreadKey(f) ==
  ThreadKeyOf(unique_participants(Permuted(part_list, f))) = ThreadKeyOf(up_result[1])

\* C24: for every permutation of a thread's participant observations the
\* deduplicated participant count, the one-to-one/group classification and
\* the final thread key are the same, and the output participant list is
\* sorted by (phone, address, name).
C24_OrderIndependent ==
  up_result # << >> =>
    /\ SortedByPhoneAddrName(up_result[1])
    /\ \A f \in Orders(Len(part_list)) : SameCountAndClass(f) /\ SameThreadKey(f)

\* What does hold for every permutation: the count, the classification and
\* the sorted output.
C24_CountAndClassIndependent ==
  up_result # << >> =>
    /\ SortedByPhoneAddrName(up_result[1])
    /\ \A f \in Orders(Len(part_list)) : SameCountAndClass(f)

\* b@x.com observed before B@x.com gives the thread key b@x.com, and the
\* same two observations the other way round give B@x.com.
C24_Witness ==
  /\ up_result # << >>
  /\ Len(part_list) = 2
  /\ part_list[1].addr = BenMail /\ part_list[2].addr = BenUpper
  /\ ThreadKeyOf(up_result[1]) = BenMail
  /\ ThreadKeyOf(unique_participants(<< part_list[2], part_list[1] >>)) = BenUpper

\* The names of the observations so far that have the merge key of entry e,
\* in the order they were seen, the missing names left out.
NamesSeenFor(e) ==
  SelectSeq([i \in 1..Len(part_list) |->
               IF participant_key(part_list[i], i) = e.key THEN part_list[i].name ELSE None],
            LAMBDA nm : nm # None)

\* The name is digits only.
DigitsOnly(nm) == nm # None /\ DigitsOf(nm) = nm

\* The name holds at least 7 digits among its characters.
SevenDigitLabel(nm) == Len(DigitsOf(nm)) >= 7

Held == UNION { { groups[k][i] : i \in 1..Len(groups[k]) } : k \in DOMAIN groups }

\* The records held, in the order their files were processed.
Arrived ==
  [i \in 1..Cardinality(Held) |->
     CHOOSE r \in Held :
       Cardinality({q \in Held : q.source_path < r.source_path}) = i - 1]

\* The buckets after the records recs, with the keys keys, are accumulated
\* in the order f, starting from the buckets g.
RECURSIVE AccumulatedFrom(_, _, _, _, _)
AccumulatedFrom(g, recs, keys, f, i) ==
  IF i > Len(recs) THEN g
  ELSE AccumulatedFrom(Bucket(g, keys[f[i]], recs[f[i]]), recs, keys, f, i + 1)

\* The partition of records into buckets: which records each key holds.
PartitionOf(g) == [k \in DOMAIN g |-> { g[k][i] : i \in 1..Len(g[k]) }]

\* C26: bucketing during accumulation is order-independent: the key of a
\* record is computed from the record and the self identifiers alone, so the
\* records held, accumulated in any order, give the partition into thread
\* buckets that the run has.
C26_BucketingOrderIndependent ==
  pc = "parse" =>
    \E recs \in {Arrived} :
      \E keys \in {[i \in 1..Len(recs) |-> GroupingKey(recs[i])]} :
        \A f \in Orders(Len(recs)) :
          PartitionOf(AccumulatedFrom(EmptyMap, recs, keys, f, 1)) = PartitionOf(groups)

\* Three files processed, the first and the third in Bob's bucket and the
\* second in another.
C26_Witness ==
  /\ pc = "parse"
  /\ count = 3
  /\ Len(order) = 2
  /\ BobPhone \in DOMAIN groups
  /\ Len(groups[BobPhone]) = 2
  /\ groups[BobPhone][1].source_path = 1
  /\ groups[BobPhone][2].source_path = 3

\* C27: the summary report accounts for every accumulated message exactly
\* once: after any run, messages_total = messages_written +
\* messages_deduplicated_removed + messages_skipped, and threads_total =
\* threads_written + threads_skipped.
C27_ReportAccounts ==
  report # << >> =>
    /\ report[1].messages_total =
         report[1].messages_written + report[1].messages_deduplicated_removed
           + report[1].messages_skipped
    /\ report[1].threads_total = report[1].threads_written + report[1].threads_skipped

\* What does hold of the report: the threads add up, and the messages add up
\* once the duplicates removed from skipped threads are left out.
C27_ThreadsAccounted ==
  report # << >> =>
    /\ report[1].threads_total = report[1].threads_written + report[1].threads_skipped
    /\ report[1].messages_total <=
         report[1].messages_written + report[1].messages_deduplicated_removed
           + report[1].messages_skipped

\* A run over message A and its byte-identical resend: 2 messages in all,
\* none written, 1 removed as a duplicate and 2 skipped.
C27_Witness ==
  /\ report # << >>
  /\ npaths = 2
  /\ BobPhone \in DOMAIN groups
  /\ ResendBucket(BobPhone)
  /\ report[1].messages_total = 2
  /\ report[1].messages_written = 0
  /\ report[1].messages_deduplicated_removed = 1
  /\ report[1].messages_skipped = 2

\* C28: two distinct thread buckets that both survive the skip policy in
\* one run are never written to the same output file path: no written
\* thread's EML/JSON output is overwritten by another thread's, so the number
\* of thread files on disk equals threads_written.
C28_NoOutputOverwritten ==
  /\ \A i, j \in 1..Len(summary) :
       i # j => summary[i].eml # summary[j].eml /\ summary[i].json # summary[j].json
  /\ Cardinality(DOMAIN eml_files) = Len(summary)
  /\ Cardinality(DOMAIN json_files) = Len(summary)
  /\ report # << >> => report[1].threads_written = Cardinality(DOMAIN json_files)

\* The threads of the two contacts saved as "Bob" are both written, and the
\* output directory holds one Bob_combined.json, that of the thread written
\* last.
C28_Witness ==
  /\ report # << >>
  /\ report[1].threads_written = 2
  /\ summary[1].thread_key # summary[2].thread_key
  /\ summary[1].json = summary[2].json
  /\ Cardinality(DOMAIN json_files) = 1
  /\ Cardinality(DOMAIN eml_files) = 1
  /\ json_files[summary[2].json].thread_key = summary[2].thread_key

\* The direction and the sender attribution of the written message jm agree.
DirectionAgrees(jm) == (jm.direction = "out") = jm.sender.is_self

\* C29: in every message of every written thread the resolved direction and
\* the sender attribution agree: the direction is outbound exactly when the
\* sender's is-self flag is true, and inbound exactly when it is false.
C29_DirectionMatchesSender ==
  \A name \in DOMAIN json_files :
    \A i \in 1..Len(json_files[name].messages) :
      /\ json_files[name].messages[i].direction \in {"in", "out"}
      /\ DirectionAgrees(json_files[name].messages[i])

\* The thread of the two messages sent from old@x.com is written: both are
\* outbound, typed as sent, and their sender is not self.
C29_Witness ==
  \E name \in DOMAIN json_files :
    /\ Len(json_files[name].messages) = 2
    /\ \A i \in 1..2 :
         \E jm \in {json_files[name].messages[i]} :
           /\ jm.direction = "out"
           /\ jm.sender.addr = OldMail
           /\ jm.sender.is_self = FALSE

\* How many messages survive dedupe_messages when the thread's messages
\* were accumulated in the order f.
SurvivorsInOrder(f) == Len(dedupe_messages(Permuted(dd_messages, f)).out)

\* C30: the outcome of message deduplication does not depend on arrival
\* order: for a fixed collection of messages in a thread the number of
\* messages that survive dedupe_messages, and hence whether the thread is
\* skipped as a single-message thread, is the same for every order in which
\* the messages were accumulated.
C30_DedupeOrderIndependent ==
  dd_first # << >> =>
    \A f \in Orders(Len(dd_messages)) :
      /\ SurvivorsInOrder(f) = Len(dd_first[1].out)
      /\ (SurvivorsInOrder(f) <= 1) = (Len(dd_first[1].out) <= 1)

\* Messages (no id, "hi"), (id a, "hi"), (id a, "yo"): two survive in this
\* order, and one survives when the first two change places, so that the
\* thread is skipped as a single-message thread.
C30_Witness ==
  /\ dd_first # << >>
  /\ Len(dd_messages) = 3
  /\ dd_messages[1].msg_id = None /\ dd_messages[1].body_text = BodyHi
  /\ dd_messages[2].msg_id = IdA /\ dd_messages[2].body_text = BodyHi
  /\ dd_messages[3].msg_id = IdA /\ dd_messages[3].body_text = BodyYo
  /\ Len(dd_first[1].out) = 2
  /\ Len(dedupe_messages(<< dd_messages[2], dd_messages[1], dd_messages[3] >>).out) = 1

=============================================================================
